---- MODULE Spec2Model ----
(***************************************************************************)
(* cassy: whitelisted CQL composition (cql.py), the cqlengine CRUD layer   *)
(* (casdriv.py) and the data-model generator/loader (model.py).            *)
(*                                                                         *)
(* The cluster is one store: keyspaces hold tables, tables hold rows.      *)
(* Cluster metadata is read off the same store.  Every call of the         *)
(* library is one action; the record `last` keeps the call, what it        *)
(* raised, what it returned and the statements it sent to the session.     *)
(* Where callers run side by side, or a reader looks on while a call is     *)
(* under way, a call is a sequence of steps, and `running` holds the calls  *)
(* under way with the step each has come to.                                *)
(***************************************************************************)
EXTENDS Integers, Sequences, FiniteSets, TLC

VARIABLES store, binding, last, fs, nextUid, running

vars == <<store, binding, last, fs, nextUid, running>>

(***************************************************************************)
(* Bounds                                                                  *)
(***************************************************************************)
\* most rows a table of the store holds
MaxRows == 2

\* most backups one run of the generator takes (uuid4 values drawn)
MaxUuid == 2

\* most pieces in which the lines of one file reach the disk
MaxPieces == 2

(***************************************************************************)
(* The cluster                                                             *)
(***************************************************************************)
KsNames == {"k1", "k2"}

TableNames == {"plant", "tree"}

ColumnNames == {"latin", "english", "german", "usda"}

Vals == {"a", "b"}

None == "None"

\* CREATE TABLE plant (latin text, english text, german text,
\*                     PRIMARY KEY (latin, english))
\* CREATE TABLE tree (latin text, usda text, PRIMARY KEY (latin))
TableColumns(table) ==
    IF table = "plant" THEN {"latin", "english", "german"} ELSE {"latin", "usda"}

TablePrimaryKey(table) ==
    IF table = "plant" THEN <<"latin", "english">> ELSE <<"latin">>

TablePartitionKey(table) == <<"latin">>

SeqToSet(s) == {s[i] : i \in DOMAIN s}

RowsOf(table) == [TableColumns(table) -> Vals]

RowKey(table, row) == [c \in SeqToSet(TablePrimaryKey(table)) |-> row[c]]

\* a table's rows: at most one row for each primary key value
ValidRows(table, n) ==
    {R \in SUBSET RowsOf(table) :
        /\ Cardinality(R) <= n
        /\ \A r1, r2 \in R : RowKey(table, r1) = RowKey(table, r2) => r1 = r2}

NoTable == [exists |-> FALSE, rows |-> {}]

NoKeyspace ==
    [exists |-> FALSE, replication |-> None, tables |-> [t \in TableNames |-> NoTable]]

EmptyKeyspace(replication) ==
    [exists |-> TRUE, replication |-> replication,
     tables |-> [t \in TableNames |-> NoTable]]

SimpleStrategy == "{'class': 'SimpleStrategy', 'replication_factor': 1}"

Replications == {"simple", "{'class': 'SimpleStrategy', 'replication_factor': 2}"}

(***************************************************************************)
(* Cluster metadata (casdriv.py)                                           *)
(***************************************************************************)
list_cluster_keyspaces(cluster) == {ks \in KsNames : cluster[ks].exists}

list_keyspace_tables(cluster, keyspace) ==
    {t \in TableNames : cluster[keyspace].tables[t].exists}

list_table_primary_keys(cluster, keyspace, table) ==
    SeqToSet(TablePrimaryKey(table))

list_table_columns(cluster, keyspace, table) == TableColumns(table)

(***************************************************************************)
(* Errors                                                                  *)
(***************************************************************************)
NoErr == [type |-> "none", msg |-> "", arg |-> ""]

KeyError(msg, arg) == [type |-> "KeyError", msg |-> msg, arg |-> arg]

\* raised by the store itself for a statement it rejects
InvalidRequest == [type |-> "InvalidRequest", msg |-> "", arg |-> ""]

\* raised by the store for a CREATE of what is there already
AlreadyExists == [type |-> "AlreadyExists", msg |-> "", arg |-> ""]

(***************************************************************************)
(* session.execute: the statements of cql.py and what the store does       *)
(***************************************************************************)
\* a statement handed to session.execute, with the identifiers that had passed
\* a whitelist check of this call when it was composed
Stmt(verb, keyspace, table, column, value, checked) ==
    [verb |-> verb, keyspace |-> keyspace, table |-> table,
     column |-> column, value |-> value, checked |-> checked]

TableRows(st, keyspace, table) == st[keyspace].tables[table].rows

WithRows(st, keyspace, table, rows) ==
    [st EXCEPT ![keyspace].tables[table].rows = rows]

TableKnown(st, keyspace, table) ==
    /\ keyspace \in KsNames
    /\ st[keyspace].exists
    /\ table \in TableNames
    /\ st[keyspace].tables[table].exists

\* the store's answer to one statement: an error, the rows returned, the new store
session_execute(st, q) ==
    CASE q.verb = "CREATE KEYSPACE IF NOT EXISTS" ->
            IF q.keyspace \in KsNames /\ ~st[q.keyspace].exists
            THEN [err |-> NoErr, rows |-> {},
                  store |-> [st EXCEPT ![q.keyspace] = EmptyKeyspace(q.value)]]
            ELSE [err |-> NoErr, rows |-> {}, store |-> st]
      [] q.verb = "CREATE KEYSPACE" ->
            IF q.keyspace \in KsNames /\ ~st[q.keyspace].exists
            THEN [err |-> NoErr, rows |-> {},
                  store |-> [st EXCEPT ![q.keyspace] = EmptyKeyspace(q.value)]]
            ELSE [err |-> AlreadyExists, rows |-> {}, store |-> st]
      [] ~TableKnown(st, q.keyspace, q.table) ->
            [err |-> InvalidRequest, rows |-> {}, store |-> st]
      [] q.verb = "SELECT" ->
            IF q.column = "*"
            THEN [err |-> NoErr, rows |-> TableRows(st, q.keyspace, q.table), store |-> st]
            ELSE IF q.column \in TableColumns(q.table)
            THEN [err |-> NoErr,
                  rows |-> {r[q.column] : r \in TableRows(st, q.keyspace, q.table)},
                  store |-> st]
            ELSE [err |-> InvalidRequest, rows |-> {}, store |-> st]
      [] q.verb = "DELETE" ->
            \* DELETE ... WHERE col = 'v' needs the whole partition key and
            \* nothing but primary key columns in its WHERE clause
            IF <<q.column>> = TablePartitionKey(q.table)
            THEN [err |-> NoErr, rows |-> {},
                  store |-> WithRows(st, q.keyspace, q.table,
                      {r \in TableRows(st, q.keyspace, q.table) : r[q.column] # q.value})]
            ELSE [err |-> InvalidRequest, rows |-> {}, store |-> st]
      [] q.verb = "TRUNCATE" ->
            [err |-> NoErr, rows |-> {}, store |-> WithRows(st, q.keyspace, q.table, {})]

(***************************************************************************)
(* cql.py.  Each function is computed on a store and yields: the error     *)
(* raised (or NoErr), the statements sent in order, the identifiers that   *)
(* had passed a whitelist check when the call ended, the value returned    *)
(* and the store afterwards.                                               *)
(***************************************************************************)
Ident(kind, name) == <<kind, name>>

Raise(st, err, stmts) ==
    [err |-> err, stmts |-> stmts, result |-> {}, store |-> st]

Sent(ex, stmts) ==
    [err |-> ex.err, stmts |-> stmts, result |-> ex.rows, store |-> ex.store]

\* create_keyspace that sets the keyspace up anew whether it is there or not
create_keyspace_replacing(st, keyspace, replication) ==
    LET repl == IF replication = "simple" THEN SimpleStrategy ELSE replication
        query == Stmt("CREATE KEYSPACE IF NOT EXISTS", keyspace, "-", "-", repl, {})
    IN  [err |-> NoErr, stmts |-> <<query>>, result |-> {},
         store |-> [st EXCEPT ![keyspace] = EmptyKeyspace(repl)]]

create_keyspace(st, keyspace, replication) ==
    LET repl == IF replication = "simple" THEN SimpleStrategy ELSE replication
        query == Stmt("CREATE KEYSPACE IF NOT EXISTS", keyspace, "-", "-", repl, {})
    IN  Sent(session_execute(st, query), <<query>>)

\* the replication of cql_manage.create_keyspace_simple for a replication factor
SimpleReplication(replication_factor) ==
    IF replication_factor = 1 THEN SimpleStrategy
    ELSE "{'class': 'SimpleStrategy', 'replication_factor': 2}"

\* casdriv.create_simple_keyspace: cql_manage.create_keyspace_simple looks the
\* name up in the metadata of each connection's cluster and sends CREATE
\* KEYSPACE only where it is missing.  connections=None stands for the default
\* connection, and connect_session registers none as default.
create_simple_keyspace(st, name, replication_factor, connections) ==
    IF connections = None
    THEN Raise(st, [type |-> "CQLEngineException", msg |-> "", arg |-> ""], <<>>)
    ELSE IF name \in list_cluster_keyspaces(st)
    THEN Raise(st, NoErr, <<>>)
    ELSE LET query == Stmt("CREATE KEYSPACE", name, "-", "-",
                           SimpleReplication(replication_factor), {})
         IN  Sent(session_execute(st, query), <<query>>)

list_column_values(st, keyspace, table, column) ==
    IF keyspace \notin list_cluster_keyspaces(st)
    THEN Raise(st, KeyError("Unknown keyspace", keyspace), <<>>)
    ELSE IF table \notin list_keyspace_tables(st, keyspace)
    THEN Raise(st, KeyError("Unknown table", table), <<>>)
    ELSE IF column \notin list_table_columns(st, keyspace, table)
    THEN Raise(st, KeyError("Unknown column", column), <<>>)
    ELSE LET query == Stmt("SELECT", keyspace, table, column, "-",
                           {Ident("keyspace", keyspace), Ident("table", table),
                            Ident("column", column)})
         IN  Sent(session_execute(st, query), <<query>>)

\* get_all_entries with the table check left out
get_all_entries_unchecked_table(st, keyspace, table) ==
    IF keyspace \notin list_cluster_keyspaces(st)
    THEN Raise(st, KeyError("Unknown keyspace", keyspace), <<>>)
    ELSE LET query == Stmt("SELECT", keyspace, table, "*", "-",
                           {Ident("keyspace", keyspace)})
         IN  Sent(session_execute(st, query), <<query>>)

get_all_entries(st, keyspace, table) ==
    IF keyspace \notin list_cluster_keyspaces(st)
    THEN Raise(st, KeyError("Unknown keyspace", keyspace), <<>>)
    ELSE IF table \notin list_keyspace_tables(st, keyspace)
    THEN Raise(st, KeyError("Unknown table", table), <<>>)
    ELSE LET query == Stmt("SELECT", keyspace, table, "*", "-",
                           {Ident("keyspace", keyspace), Ident("table", table)})
         IN  Sent(session_execute(st, query), <<query>>)

\* drop_row with the primary key check left out
drop_row_unchecked_key(st, keyspace, table, primary_key, value) ==
    IF keyspace \notin list_cluster_keyspaces(st)
    THEN Raise(st, KeyError("Unknown keyspace", keyspace), <<>>)
    ELSE IF table \notin list_keyspace_tables(st, keyspace)
    THEN Raise(st, KeyError("Unknown table", table), <<>>)
    ELSE LET values == list_column_values(st, keyspace, table, primary_key)
         IN  IF values.err # NoErr
             THEN Raise(values.store, values.err, values.stmts)
             ELSE IF value \notin values.result
             THEN Raise(values.store, KeyError("Unknown primary key value", value),
                        values.stmts)
             ELSE LET query == Stmt("DELETE", keyspace, table, primary_key, value,
                                    {Ident("keyspace", keyspace), Ident("table", table),
                                     Ident("value", value)})
                  IN  Sent(session_execute(values.store, query),
                           values.stmts \o <<query>>)

\* drop_row with the value check left out
drop_row_unchecked_value(st, keyspace, table, primary_key, value) ==
    IF keyspace \notin list_cluster_keyspaces(st)
    THEN Raise(st, KeyError("Unknown keyspace", keyspace), <<>>)
    ELSE IF table \notin list_keyspace_tables(st, keyspace)
    THEN Raise(st, KeyError("Unknown table", table), <<>>)
    ELSE IF primary_key \notin list_table_primary_keys(st, keyspace, table)
    THEN Raise(st, KeyError("Unknown primary key", primary_key), <<>>)
    ELSE LET query == Stmt("DELETE", keyspace, table, primary_key, value,
                           {Ident("keyspace", keyspace), Ident("table", table),
                            Ident("primary_key", primary_key)})
         IN  Sent(session_execute(st, query), <<query>>)

\* drop_row that empties the table once its checks have passed
drop_row_truncating(st, keyspace, table, primary_key, value) ==
    IF keyspace \notin list_cluster_keyspaces(st)
    THEN Raise(st, KeyError("Unknown keyspace", keyspace), <<>>)
    ELSE IF table \notin list_keyspace_tables(st, keyspace)
    THEN Raise(st, KeyError("Unknown table", table), <<>>)
    ELSE IF primary_key \notin list_table_primary_keys(st, keyspace, table)
    THEN Raise(st, KeyError("Unknown primary key", primary_key), <<>>)
    ELSE LET values == list_column_values(st, keyspace, table, primary_key)
         IN  IF values.err # NoErr
             THEN Raise(values.store, values.err, values.stmts)
             ELSE IF value \notin values.result
             THEN Raise(values.store, KeyError("Unknown primary key value", value),
                        values.stmts)
             ELSE LET query == Stmt("TRUNCATE", keyspace, table, "-", "-",
                                    {Ident("keyspace", keyspace), Ident("table", table)})
                  IN  Sent(session_execute(values.store, query),
                           values.stmts \o <<query>>)

\* drop_row that fetches the column's values before it checks the primary key
drop_row_value_first(st, keyspace, table, primary_key, value) ==
    IF keyspace \notin list_cluster_keyspaces(st)
    THEN Raise(st, KeyError("Unknown keyspace", keyspace), <<>>)
    ELSE IF table \notin list_keyspace_tables(st, keyspace)
    THEN Raise(st, KeyError("Unknown table", table), <<>>)
    ELSE LET values == list_column_values(st, keyspace, table, primary_key)
         IN  IF values.err # NoErr
             THEN Raise(values.store, values.err, values.stmts)
             ELSE IF value \notin values.result
             THEN Raise(values.store, KeyError("Unknown primary key value", value),
                        values.stmts)
             ELSE IF primary_key \notin list_table_primary_keys(st, keyspace, table)
             THEN Raise(values.store, KeyError("Unknown primary key", primary_key),
                        values.stmts)
             ELSE LET query == Stmt("DELETE", keyspace, table, primary_key, value,
                                    {Ident("keyspace", keyspace), Ident("table", table),
                                     Ident("primary_key", primary_key),
                                     Ident("value", value)})
                  IN  Sent(session_execute(values.store, query),
                           values.stmts \o <<query>>)

drop_row(st, keyspace, table, primary_key, value) ==
    IF keyspace \notin list_cluster_keyspaces(st)
    THEN Raise(st, KeyError("Unknown keyspace", keyspace), <<>>)
    ELSE IF table \notin list_keyspace_tables(st, keyspace)
    THEN Raise(st, KeyError("Unknown table", table), <<>>)
    ELSE IF primary_key \notin list_table_primary_keys(st, keyspace, table)
    THEN Raise(st, KeyError("Unknown primary key", primary_key), <<>>)
    ELSE LET values == list_column_values(st, keyspace, table, primary_key)
         IN  IF values.err # NoErr
             THEN Raise(values.store, values.err, values.stmts)
             ELSE IF value \notin values.result
             THEN Raise(values.store, KeyError("Unknown primary key value", value),
                        values.stmts)
             ELSE LET query == Stmt("DELETE", keyspace, table, primary_key, value,
                                    {Ident("keyspace", keyspace), Ident("table", table),
                                     Ident("primary_key", primary_key),
                                     Ident("value", value)})
                  IN  Sent(session_execute(values.store, query),
                           values.stmts \o <<query>>)

\* drop_all_rows that reads the table where it should empty it
drop_all_rows_reading(st, keyspace, table) ==
    IF keyspace \notin list_cluster_keyspaces(st)
    THEN Raise(st, KeyError("Unknown keyspace", keyspace), <<>>)
    ELSE IF table \notin list_keyspace_tables(st, keyspace)
    THEN Raise(st, KeyError("Unknown table", table), <<>>)
    ELSE LET query == Stmt("SELECT", keyspace, table, "*", "-",
                           {Ident("keyspace", keyspace), Ident("table", table)})
         IN  Sent(session_execute(st, query), <<query>>)

drop_all_rows(st, keyspace, table) ==
    IF keyspace \notin list_cluster_keyspaces(st)
    THEN Raise(st, KeyError("Unknown keyspace", keyspace), <<>>)
    ELSE IF table \notin list_keyspace_tables(st, keyspace)
    THEN Raise(st, KeyError("Unknown table", table), <<>>)
    ELSE LET query == Stmt("TRUNCATE", keyspace, table, "-", "-",
                           {Ident("keyspace", keyspace), Ident("table", table)})
         IN  Sent(session_execute(st, query), <<query>>)

(***************************************************************************)
(* Calls of cql.py                                                         *)
(***************************************************************************)
CqlCall(op, keyspace, table, column, value, r) ==
    [op |-> op, keyspace |-> keyspace, table |-> table, column |-> column,
     value |-> value, err |-> r.err, stmts |-> r.stmts, result |-> r.result]

NoCall == [op |-> "none", err |-> NoErr, stmts |-> <<>>]

CreateKeyspace(keyspace, replication) ==
    LET r == create_keyspace(store, keyspace, replication)
    IN  /\ store' = r.store
        /\ last' = CqlCall("create_keyspace", keyspace, "-", "-", replication, r)
        /\ UNCHANGED <<binding, fs, nextUid, running>>

CreateSimpleKeyspace(name, replication_factor, connections) ==
    LET r == create_simple_keyspace(store, name, replication_factor, connections)
    IN  /\ store' = r.store
        /\ last' = CqlCall("create_simple_keyspace", name, "-", "-",
                            SimpleReplication(replication_factor), r)
        /\ UNCHANGED <<binding, fs, nextUid, running>>

ListColumnValues(keyspace, table, column) ==
    LET r == list_column_values(store, keyspace, table, column)
    IN  /\ store' = r.store
        /\ last' = CqlCall("list_column_values", keyspace, table, column, "-", r)
        /\ UNCHANGED <<binding, fs, nextUid, running>>

GetAllEntries(keyspace, table) ==
    LET r == get_all_entries(store, keyspace, table)
    IN  /\ store' = r.store
        /\ last' = CqlCall("get_all_entries", keyspace, table, "-", "-", r)
        /\ UNCHANGED <<binding, fs, nextUid, running>>

DropRow(keyspace, table, primary_key, value) ==
    LET r == drop_row(store, keyspace, table, primary_key, value)
    IN  /\ store' = r.store
        /\ last' = CqlCall("drop_row", keyspace, table, primary_key, value, r)
        /\ UNCHANGED <<binding, fs, nextUid, running>>

DropAllRows(keyspace, table) ==
    LET r == drop_all_rows(store, keyspace, table)
    IN  /\ store' = r.store
        /\ last' = CqlCall("drop_all_rows", keyspace, table, "-", "-", r)
        /\ UNCHANGED <<binding, fs, nextUid, running>>

NoBinding == [keyspace |-> None, connection |-> None]

\* a cluster some client has filled: k1 holds plant, and maybe tree; k2 may
\* not exist, may be empty, or may hold a plant table of its own
TreeSample == {[latin |-> "a", usda |-> "b"]}

PlantSample == {[latin |-> "a", english |-> "b", german |-> "a"]}

CqlStores ==
    {[k1 |-> [exists |-> TRUE, replication |-> SimpleStrategy,
              tables |-> [plant |-> [exists |-> TRUE, rows |-> p], tree |-> t]],
      k2 |-> k] :
        p \in ValidRows("plant", MaxRows),
        t \in {NoTable, [exists |-> TRUE, rows |-> TreeSample]},
        k \in {NoKeyspace,
               [exists |-> TRUE, replication |-> SimpleStrategy,
                tables |-> [plant |-> [exists |-> TRUE, rows |-> PlantSample],
                            tree |-> NoTable]]}}

InitCql ==
    /\ store \in CqlStores
    /\ binding = NoBinding
    /\ last = NoCall
    /\ fs = <<>>
    /\ nextUid = 0
    /\ running = <<>>

ReplicationFactors == {1, 2}

NextCql ==
    \/ \E ks \in KsNames, repl \in Replications : CreateKeyspace(ks, repl)
    \/ \E ks \in KsNames, factor \in ReplicationFactors, cons \in {None, "c1"} :
            CreateSimpleKeyspace(ks, factor, cons)
    \/ \E ks \in KsNames, t \in TableNames, c \in ColumnNames :
            ListColumnValues(ks, t, c)
    \/ \E ks \in KsNames, t \in TableNames : GetAllEntries(ks, t)
    \/ \E ks \in KsNames, t \in TableNames, c \in ColumnNames, v \in Vals :
            DropRow(ks, t, c, v)
    \/ \E ks \in KsNames, t \in TableNames : DropAllRows(ks, t)

SpecCql == InitCql /\ [][NextCql]_vars

(***************************************************************************)
(* cqlengine as casdriv.py uses it.  The model class is ClusterPlant, its  *)
(* table is plant; __keyspace__ and __connection__ of the class are the    *)
(* variable binding.                                                       *)
(***************************************************************************)
ModelTable == "plant"

\* connect_session registers one connection, under the cluster's name
Connections == {"c1"}

DoesNotExist == [type |-> "DoesNotExist", msg |-> "", arg |-> ""]

MultipleObjectsReturned == [type |-> "MultipleObjectsReturned", msg |-> "", arg |-> ""]

CQLEngineException == [type |-> "CQLEngineException", msg |-> "", arg |-> ""]

ValueError(msg) == [type |-> "ValueError", msg |-> msg, arg |-> ""]

NoEntry == [latin |-> None, english |-> None, german |-> None]

\* what a call comes to: the error raised, the entry and the list returned, the
\* store and the binding afterwards, and the statements that went to the store
Outcome(err, entry, result, st, b) ==
    [err |-> err, entry |-> entry, result |-> result, store |-> st, binding |-> b,
     sent |-> <<>>]

\* cqlengine executes a statement only on a registered connection
Executed(verb, b, o) ==
    [o EXCEPT !.sent = IF b.connection \in Connections THEN <<verb>> ELSE <<>>]

\* two steps of one call, one after the other
After(first, second) == [second EXCEPT !.sent = first.sent \o second.sent]

\* the error of a statement that cannot reach the model's table, or NoErr
TableAccess(st, b) ==
    IF b.connection \notin Connections THEN CQLEngineException
    ELSE IF ~TableKnown(st, b.keyspace, ModelTable) THEN InvalidRequest
    ELSE NoErr

\* sync_table that drops the table and creates it again
sync_table_recreating(st, b) ==
    IF b.connection \notin Connections \/ b.keyspace \notin list_cluster_keyspaces(st)
    THEN Outcome(CQLEngineException, NoEntry, {}, st, b)
    ELSE Executed("CREATE TABLE", b,
            Outcome(NoErr, NoEntry, {},
                    [st EXCEPT ![b.keyspace].tables[ModelTable] =
                                    [exists |-> TRUE, rows |-> {}]], b))

\* cql_manage.sync_table(model): CREATE TABLE in the bound keyspace when the
\* table is not there; nothing when it is
sync_table(st, b) ==
    IF b.connection \notin Connections \/ b.keyspace \notin list_cluster_keyspaces(st)
    THEN Outcome(CQLEngineException, NoEntry, {}, st, b)
    ELSE IF st[b.keyspace].tables[ModelTable].exists
    THEN Outcome(NoErr, NoEntry, {}, st, b)
    ELSE Executed("CREATE TABLE", b,
            Outcome(NoErr, NoEntry, {},
                    [st EXCEPT ![b.keyspace].tables[ModelTable].exists = TRUE], b))

\* model.create that leaves an existing row with the same primary key alone
model_create_if_not_exists(st, b, data) ==
    IF TableAccess(st, b) # NoErr
    THEN Outcome(TableAccess(st, b), NoEntry, {}, st, b)
    ELSE LET rows == TableRows(st, b.keyspace, ModelTable)
             old == {r \in rows : RowKey(ModelTable, r) = RowKey(ModelTable, data)}
         IN  Outcome(NoErr, data, {},
                     WithRows(st, b.keyspace, ModelTable,
                              IF old = {} THEN rows \cup {data} ELSE rows), b)

\* model.create that adds a row and never replaces one
model_create_appending(st, b, data) ==
    Executed("INSERT", b,
        IF TableAccess(st, b) # NoErr
        THEN Outcome(TableAccess(st, b), NoEntry, {}, st, b)
        ELSE Outcome(NoErr, data, {},
                     WithRows(st, b.keyspace, ModelTable,
                              TableRows(st, b.keyspace, ModelTable) \cup {data}), b))

\* model.create(**data): INSERT of one row; data gives every column, so the row
\* replaces the one with the same primary key, if there is one
model_create(st, b, data) ==
    Executed("INSERT", b,
        IF TableAccess(st, b) # NoErr
        THEN Outcome(TableAccess(st, b), NoEntry, {}, st, b)
        ELSE LET rows == TableRows(st, b.keyspace, ModelTable)
                 old == {r \in rows : RowKey(ModelTable, r) = RowKey(ModelTable, data)}
             IN  Outcome(NoErr, data, {},
                         WithRows(st, b.keyspace, ModelTable, (rows \ old) \cup {data}),
                         b))

\* a WHERE clause the store accepts: equalities on a prefix of the primary key;
\* an empty filter makes a SELECT with no WHERE clause
FilterAccepted(filter) ==
    \E n \in 0..Len(TablePrimaryKey(ModelTable)) :
        DOMAIN filter = {TablePrimaryKey(ModelTable)[i] : i \in 1..n}

\* model.get(**filter_dict): the one row matching every pair of the filter
model_get(st, b, filter) ==
    Executed("SELECT", b,
        IF TableAccess(st, b) # NoErr
        THEN Outcome(TableAccess(st, b), NoEntry, {}, st, b)
        ELSE IF ~FilterAccepted(filter)
        THEN Outcome(InvalidRequest, NoEntry, {}, st, b)
        ELSE LET found == {r \in TableRows(st, b.keyspace, ModelTable) :
                                \A k \in DOMAIN filter : r[k] = filter[k]}
             IN  IF found = {} THEN Outcome(DoesNotExist, NoEntry, {}, st, b)
                 ELSE IF Cardinality(found) > 1
                 THEN Outcome(MultipleObjectsReturned, NoEntry, {}, st, b)
                 ELSE Outcome(NoErr, CHOOSE r \in found : TRUE, {}, st, b))

\* entry.delete() that deletes the entry's whole partition
entry_delete_partition(st, b, entry) ==
    IF TableAccess(st, b) # NoErr
    THEN Outcome(TableAccess(st, b), NoEntry, {}, st, b)
    ELSE Outcome(NoErr, NoEntry, {},
                 WithRows(st, b.keyspace, ModelTable,
                    {r \in TableRows(st, b.keyspace, ModelTable) :
                        \E k \in SeqToSet(TablePartitionKey(ModelTable)) :
                            r[k] # entry[k]}), b)

\* entry.delete() that fails for an entry the table no longer holds
entry_delete_strict(st, b, entry) ==
    Executed("DELETE", b,
        IF TableAccess(st, b) # NoErr
        THEN Outcome(TableAccess(st, b), NoEntry, {}, st, b)
        ELSE IF \A r \in TableRows(st, b.keyspace, ModelTable) :
                    RowKey(ModelTable, r) # RowKey(ModelTable, entry)
        THEN Outcome(DoesNotExist, NoEntry, {}, st, b)
        ELSE Outcome(NoErr, NoEntry, {},
                     WithRows(st, b.keyspace, ModelTable,
                        {r \in TableRows(st, b.keyspace, ModelTable) :
                            RowKey(ModelTable, r) # RowKey(ModelTable, entry)}), b))

\* entry.delete(): DELETE of the row with the entry's primary key
entry_delete(st, b, entry) ==
    Executed("DELETE", b,
        IF TableAccess(st, b) # NoErr
        THEN Outcome(TableAccess(st, b), NoEntry, {}, st, b)
        ELSE Outcome(NoErr, NoEntry, {},
                     WithRows(st, b.keyspace, ModelTable,
                        {r \in TableRows(st, b.keyspace, ModelTable) :
                            RowKey(ModelTable, r) # RowKey(ModelTable, entry)}), b))

\* list(model.objects().all())
objects_all(st, b) ==
    Executed("SELECT", b,
        IF TableAccess(st, b) # NoErr
        THEN Outcome(TableAccess(st, b), NoEntry, {}, st, b)
        ELSE Outcome(NoErr, NoEntry, TableRows(st, b.keyspace, ModelTable), st, b))

(***************************************************************************)
(* casdriv.py                                                              *)
(***************************************************************************)
\* a binding that, once set on the model, is never replaced
BindOnce(b, keyspace, con) ==
    [keyspace |-> IF b.keyspace # None THEN b.keyspace ELSE keyspace,
     connection |-> IF b.connection # None THEN b.connection ELSE con]

\* if keyspace: model.__keyspace__ = keyspace; if con: model.__connection__ = con
Bind(b, keyspace, con) ==
    [keyspace |-> IF keyspace # None THEN keyspace ELSE b.keyspace,
     connection |-> IF con # None THEN con ELSE b.connection]

\* primary_keys and values as the caller passes them: a str, a tuple or
\* something that is neither
PyStr(v) == [kind |-> "str", v |-> <<v>>]

PyTuple(v) == [kind |-> "tuple", v |-> v]

PyInt(v) == [kind |-> "int", v |-> <<v>>]

Min(a, b) == IF a < b THEN a ELSE b

\* a dict of the first pair alone
DictZipFirst(keys, vals) ==
    [k \in {keys[i] : i \in 1..Min(1, Min(Len(keys), Len(vals)))} |-> vals[1]]

\* dict(zip(keys, vals)): pairs by position up to the shorter length, a later
\* pair replacing an earlier one with the same key
DictZip(keys, vals) ==
    LET n == Min(Len(keys), Len(vals))
    IN  [k \in {keys[i] : i \in 1..n} |->
            vals[CHOOSE i \in 1..n :
                    keys[i] = k /\ \A j \in 1..n : keys[j] = k => j <= i]]

synchronize_model(st, b) == sync_table(st, b)

\* create_entry that synchronizes the model before it applies keyspace and con
create_entry_sync_first(st, b, data, prior_syncing, keyspace, con) ==
    LET b1 == Bind(b, keyspace, con)
        synced == IF prior_syncing THEN synchronize_model(st, b)
                  ELSE Outcome(NoErr, NoEntry, {}, st, b)
    IN  IF synced.err # NoErr THEN [synced EXCEPT !.binding = b1]
        ELSE After(synced, model_create(synced.store, b1, data))

create_entry(st, b, data, prior_syncing, keyspace, con) ==
    LET b1 == Bind(b, keyspace, con)
        synced == IF prior_syncing THEN synchronize_model(st, b1)
                  ELSE Outcome(NoErr, NoEntry, {}, st, b1)
    IN  IF synced.err # NoErr THEN synced
        ELSE After(synced, model_create(synced.store, b1, data))

\* msg1 + msg2 of read_entry: two plain strings, joined with nothing between
KeyShapeMsg ==
    "'primary_keys' argument must be of type str or tuplenot {type(primary_keys)}"

\* read_entry that takes whatever is not a str for a container
read_entry_unvalidated(st, b, primary_keys, values, keyspace, con) ==
    LET b1 == Bind(b, keyspace, con)
    IN  IF primary_keys.kind = "str"
        THEN model_get(st, b1, [k \in {primary_keys.v[1]} |-> values.v[1]])
        ELSE model_get(st, b1, DictZip(<<"latin">>, values.v))

\* read_entry that refuses keys and values of different lengths
read_entry_strict(st, b, primary_keys, values, keyspace, con) ==
    LET b1 == Bind(b, keyspace, con)
    IN  IF primary_keys.kind = "str"
        THEN model_get(st, b1, [k \in {primary_keys.v[1]} |-> values.v[1]])
        ELSE IF primary_keys.kind = "tuple" /\ Len(primary_keys.v) = Len(values.v)
        THEN model_get(st, b1, DictZip(primary_keys.v, values.v))
        ELSE Outcome(ValueError(KeyShapeMsg), NoEntry, {}, st, b1)

read_entry(st, b, primary_keys, values, keyspace, con) ==
    LET b1 == Bind(b, keyspace, con)
    IN  IF primary_keys.kind = "str"
        THEN model_get(st, b1, [k \in {primary_keys.v[1]} |-> values.v[1]])
        ELSE IF primary_keys.kind = "tuple"
        THEN model_get(st, b1, DictZip(primary_keys.v, values.v))
        ELSE Outcome(ValueError(KeyShapeMsg), NoEntry, {}, st, b1)

\* delete_entry that treats a failed read as nothing to delete
delete_entry_quiet(st, b, primary_keys, values, keyspace, con) ==
    LET read == read_entry(st, b, primary_keys, values, keyspace, con)
    IN  IF read.err # NoErr
        THEN Outcome(NoErr, NoEntry, {}, read.store, read.binding)
        ELSE entry_delete(read.store, read.binding, read.entry)

delete_entry(st, b, primary_keys, values, keyspace, con) ==
    LET read == read_entry(st, b, primary_keys, values, keyspace, con)
    IN  IF read.err # NoErr THEN read
        ELSE After(read, entry_delete(read.store, read.binding, read.entry))

get_all_entries_of(st, b, keyspace, con) == objects_all(st, Bind(b, keyspace, con))

(***************************************************************************)
(* Calls of casdriv.py                                                     *)
(***************************************************************************)
CrudCall(op, data, prior_syncing, primary_keys, values, keyspace, con, r) ==
    [op |-> op, data |-> data, prior_syncing |-> prior_syncing,
     primary_keys |-> primary_keys, values |-> values, keyspace |-> keyspace,
     con |-> con, err |-> r.err, entry |-> r.entry, result |-> r.result,
     sent |-> r.sent]

CreateEntry(data, prior_syncing, keyspace, con) ==
    LET r == create_entry(store, binding, data, prior_syncing, keyspace, con)
    IN  /\ \A ks \in KsNames :
                Cardinality(TableRows(r.store, ks, ModelTable)) <= MaxRows
        /\ store' = r.store
        /\ binding' = r.binding
        /\ last' = CrudCall("create_entry", data, prior_syncing, PyStr(None), PyStr(None),
                            keyspace, con, r)
        /\ UNCHANGED <<fs, nextUid, running>>

ReadEntry(primary_keys, values, keyspace, con) ==
    LET r == read_entry(store, binding, primary_keys, values, keyspace, con)
    IN  /\ store' = r.store
        /\ binding' = r.binding
        /\ last' = CrudCall("read_entry", NoEntry, FALSE, primary_keys, values,
                            keyspace, con, r)
        /\ UNCHANGED <<fs, nextUid, running>>

DeleteEntry(primary_keys, values, keyspace, con) ==
    LET r == delete_entry(store, binding, primary_keys, values, keyspace, con)
    IN  /\ store' = r.store
        /\ binding' = r.binding
        /\ last' = CrudCall("delete_entry", NoEntry, FALSE, primary_keys, values,
                            keyspace, con, r)
        /\ UNCHANGED <<fs, nextUid, running>>

GetAllEntriesOf(keyspace, con) ==
    LET r == get_all_entries_of(store, binding, keyspace, con)
    IN  /\ store' = r.store
        /\ binding' = r.binding
        /\ last' = CrudCall("get_all_entries", NoEntry, FALSE, PyStr(None), PyStr(None),
                            keyspace, con, r)
        /\ UNCHANGED <<fs, nextUid, running>>

SynchronizeModel ==
    LET r == synchronize_model(store, binding)
    IN  /\ store' = r.store
        /\ binding' = r.binding
        /\ last' = CrudCall("synchronize_model", NoEntry, FALSE, PyStr(None), PyStr(None),
                            None, None, r)
        /\ UNCHANGED <<fs, nextUid, running>>

\* data of create_entry: a value for every column of the model
DataDicts == [TableColumns(ModelTable) -> Vals]

\* primary_keys with values of the same shape and length
KeyArgs ==
    {<<PyStr(k), PyStr(v)>> : k \in {"latin"}, v \in Vals}
    \cup UNION {{<<PyTuple(ks), PyTuple(vs)>> : vs \in [1..Len(ks) -> Vals]} :
                    ks \in {<<"latin">>, <<"latin", "english">>, <<"english", "latin">>}}
    \cup {<<PyInt(1), PyInt(2)>>}

\* primary_keys and values as tuples of different lengths
RaggedKeyArgs ==
    {kv \in {<<PyTuple(ks), PyTuple(vs)>> :
                ks \in {<<>>, <<"latin">>, <<"latin", "english">>},
                vs \in {<<>>} \cup [1..1 -> Vals] \cup [1..2 -> Vals]} :
        Len(kv[1].v) # Len(kv[2].v)}

\* one keyspace, created beforehand; the model class as it is defined: unbound
InitCrud ==
    /\ store = [ks \in KsNames |->
                    IF ks = "k1" THEN EmptyKeyspace(SimpleStrategy) ELSE NoKeyspace]
    /\ binding = NoBinding
    /\ last = NoCall
    /\ fs = <<>>
    /\ nextUid = 0
    /\ running = <<>>

CrudKeyspaces == {None, "k1"}

CrudConnections == {None, "c1"}

NextCrud ==
    \/ \E data \in DataDicts, ps \in BOOLEAN, ks \in CrudKeyspaces, con \in CrudConnections :
            CreateEntry(data, ps, ks, con)
    \/ \E kv \in KeyArgs \cup RaggedKeyArgs, ks \in CrudKeyspaces,
          con \in CrudConnections :
            ReadEntry(kv[1], kv[2], ks, con)
    \/ \E kv \in KeyArgs, ks \in CrudKeyspaces, con \in CrudConnections :
            DeleteEntry(kv[1], kv[2], ks, con)
    \/ \E ks \in CrudKeyspaces, con \in CrudConnections : GetAllEntriesOf(ks, con)
    \/ SynchronizeModel

SpecCrud == InitCrud /\ [][NextCrud]_vars

(***************************************************************************)
(* One model used in two keyspaces: each holds the model's table with a    *)
(* row of its own, or does not hold the table yet.  "c2" is a connection   *)
(* name nobody registered.                                                 *)
(***************************************************************************)
BindData == {[latin |-> "a", english |-> v, german |-> "a"] : v \in Vals}

BindKeyArgs ==
    {<<PyTuple(<<"latin", "english">>), PyTuple(<<"a", v>>)>> : v \in Vals}
    \cup {<<PyInt(1), PyInt(2)>>}

BindKeyspaces == {None, "k1", "k2"}

BindConnections == {None, "c1", "c2"}

InitBind ==
    /\ \E synced \in SUBSET KsNames :
        store = [ks \in KsNames |->
                    [exists |-> TRUE, replication |-> SimpleStrategy,
                     tables |-> [t \in TableNames |->
                        IF t # ModelTable \/ ks \notin synced THEN NoTable
                        ELSE [exists |-> TRUE,
                              rows |-> {[latin |-> "a", german |-> "a",
                                         english |-> IF ks = "k1" THEN "a" ELSE "b"]}]]]]
    /\ binding = NoBinding
    /\ last = NoCall
    /\ fs = <<>>
    /\ nextUid = 0
    /\ running = <<>>

NextBind ==
    \/ \E data \in BindData, ps \in BOOLEAN, ks \in BindKeyspaces,
          con \in BindConnections :
            CreateEntry(data, ps, ks, con)
    \/ \E kv \in BindKeyArgs, ks \in BindKeyspaces, con \in BindConnections :
            ReadEntry(kv[1], kv[2], ks, con)
    \/ \E kv \in BindKeyArgs, ks \in BindKeyspaces, con \in BindConnections :
            DeleteEntry(kv[1], kv[2], ks, con)
    \/ \E ks \in BindKeyspaces, con \in BindConnections : GetAllEntriesOf(ks, con)

SpecBind == InitBind /\ [][NextBind]_vars

(***************************************************************************)
(* model.py: the generator and the loader.  A path is a directory (anchor) *)
(* and a file name; fs maps the absolute paths of the files that exist to  *)
(* their content, a sequence of lines.                                     *)
(***************************************************************************)
Home == "/home/user"

Cwd == "/cwd"

\* a file name: stem, the uid of "<stem>_backup_<uid>" (0: none), suffixes
Path(anchor, stem, ext) == [anchor |-> anchor, stem |-> stem, backup |-> 0, ext |-> ext]

\* Path(path).expanduser()
expanduser(path) == IF path.anchor = "~" THEN [path EXCEPT !.anchor = Home] ELSE path

\* Path(path).resolve()
resolve(path) == IF path.anchor = "." THEN [path EXCEPT !.anchor = Cwd] ELSE path

is_file(files, path) == resolve(path) \in DOMAIN files

WriteFile(files, path, content) ==
    [q \in DOMAIN files \cup {path} |-> IF q = path THEN content ELSE files[q]]

FileExistsError == [type |-> "FileExistsError", msg |-> "", arg |-> ""]

FileNotFoundError == [type |-> "FileNotFoundError", msg |-> "", arg |-> ""]

AttributeError == [type |-> "AttributeError", msg |-> "", arg |-> ""]

ModelDefinitionException == [type |-> "ModelDefinitionException", msg |-> "", arg |-> ""]

\* MetaModel: primary_keys, clustering_keys and columns are dicts, kept as the
\* sequence of their items in insertion order
MetaModel(name, primary_keys, clustering_keys, columns) ==
    [name |-> name, primary_keys |-> primary_keys,
     clustering_keys |-> clustering_keys, columns |-> columns]

Comment(text) == [kind |-> "comment", text |-> text]

Import(name) == [kind |-> "import", name |-> name]

Class(name) == [kind |-> "class", name |-> name]

\* "    <name> = columns.<type>(primary_key=..., clustering_order=...)"
Field(name, type, primary_key, clustering_order) ==
    [kind |-> "field", name |-> name, type |-> type, primary_key |-> primary_key,
     clustering_order |-> clustering_order]

_write_model_lines(meta_model, path) ==
    <<Comment(path), Comment("automatically created using cassy"),
      Import("columns"), Import("Model"), Class(meta_model.name)>>
    \o [i \in DOMAIN meta_model.primary_keys |->
            Field(meta_model.primary_keys[i][1], meta_model.primary_keys[i][2],
                  TRUE, None)]
    \o [i \in DOMAIN meta_model.clustering_keys |->
            Field(meta_model.clustering_keys[i][1], meta_model.clustering_keys[i][2][1],
                  TRUE, meta_model.clustering_keys[i][2][2])]
    \o <<Comment("Regular Table Columns:")>>
    \o [i \in DOMAIN meta_model.columns |->
            Field(meta_model.columns[i][1], meta_model.columns[i][2], FALSE, None)]

\* the outcome of _handle_path: the error, the output path, the files and the
\* uuid4 values drawn so far
Handled(err, output_path, files, uid) ==
    [err |-> err, output_path |-> output_path, fs |-> files, nextUid |-> uid]

\* _handle_path that never refuses an existing file
_handle_path_overwriting(files, uid, path, overwrite, backup) ==
    LET output_path == IF path.anchor = "~" THEN expanduser(path) ELSE resolve(path)
    IN  IF ~is_file(files, output_path) THEN Handled(NoErr, output_path, files, uid)
        ELSE IF ~backup THEN Handled(NoErr, output_path, files, uid)
        ELSE LET backup_path == [output_path EXCEPT !.backup = uid + 1]
             IN  Handled(NoErr, output_path,
                         WriteFile(files, backup_path, files[output_path]), uid + 1)

\* _handle_path that names every backup alike, with no fresh uid
_handle_path_one_backup(files, uid, path, overwrite, backup) ==
    LET output_path == IF path.anchor = "~" THEN expanduser(path) ELSE resolve(path)
    IN  IF ~is_file(files, output_path) THEN Handled(NoErr, output_path, files, uid)
        ELSE IF ~overwrite THEN Handled(FileExistsError, output_path, files, uid)
        ELSE IF ~backup THEN Handled(NoErr, output_path, files, uid)
        ELSE LET backup_path == [output_path EXCEPT !.backup = 1]
             IN  Handled(NoErr, output_path,
                         WriteFile(files, backup_path, files[output_path]), uid + 1)

\* _handle_path that copies an existing file before it looks at overwrite
_handle_path_eager(files, uid, path, overwrite, backup) ==
    LET output_path == IF path.anchor = "~" THEN expanduser(path) ELSE resolve(path)
    IN  IF ~is_file(files, output_path) THEN Handled(NoErr, output_path, files, uid)
        ELSE LET backup_path == [output_path EXCEPT !.backup = uid + 1]
                 copied == IF backup
                           THEN WriteFile(files, backup_path, files[output_path])
                           ELSE files
                 drawn == IF backup THEN uid + 1 ELSE uid
             IN  IF ~overwrite THEN Handled(FileExistsError, output_path, copied, drawn)
                 ELSE Handled(NoErr, output_path, copied, drawn)

_handle_path(files, uid, path, overwrite, backup) ==
    LET output_path == IF path.anchor = "~" THEN expanduser(path) ELSE resolve(path)
    IN  IF ~is_file(files, output_path) THEN Handled(NoErr, output_path, files, uid)
        ELSE IF ~overwrite THEN Handled(FileExistsError, output_path, files, uid)
        ELSE IF ~backup THEN Handled(NoErr, output_path, files, uid)
        ELSE LET backup_path == [output_path EXCEPT !.backup = uid + 1]
             IN  Handled(NoErr, output_path,
                         WriteFile(files, backup_path, files[output_path]), uid + 1)

\* the outcome of a call of model.py
Forged(err, ret, model, files, uid) ==
    [err |-> err, ret |-> ret, model |-> model, fs |-> files, nextUid |-> uid]

NoPath == [anchor |-> None, stem |-> None, backup |-> 0, ext |-> None]

NoModel ==
    [table_name |-> None, case_sensitive |-> FALSE, columns |-> <<>>,
     primary_keys |-> <<>>, partition_keys |-> <<>>, clustering_keys |-> <<>>]

\* create_data_model that opens the path as the caller gave it
create_data_model_unresolved(files, uid, meta_model, path, overwrite, backup) ==
    LET lines_to_write == _write_model_lines(meta_model, path)
        handled == _handle_path(files, uid, path, overwrite, backup)
    IN  IF handled.err # NoErr
        THEN Forged(handled.err, NoPath, NoModel, handled.fs, handled.nextUid)
        ELSE Forged(NoErr, handled.output_path, NoModel,
                    WriteFile(handled.fs, path, lines_to_write), handled.nextUid)

create_data_model(files, uid, meta_model, path, overwrite, backup) ==
    LET lines_to_write == _write_model_lines(meta_model, path)
        handled == _handle_path(files, uid, path, overwrite, backup)
    IN  IF handled.err # NoErr
        THEN Forged(handled.err, NoPath, NoModel, handled.fs, handled.nextUid)
        ELSE Forged(NoErr, handled.output_path, NoModel,
                    WriteFile(handled.fs, handled.output_path, lines_to_write),
                    handled.nextUid)

\* the subsequence of s at the indices that satisfy Keep
RECURSIVE SelectIndices(_, _, _)
SelectIndices(s, keep, i) ==
    IF i > Len(s) THEN <<>>
    ELSE (IF i \in keep THEN <<s[i]>> ELSE <<>>) \o SelectIndices(s, keep, i + 1)

\* spec.loader.exec_module(module): the class statement of the artifact builds a
\* cqlengine Model.  A name assigned twice in the class body keeps its last
\* column.  No column is declared partition_key, so cqlengine makes the first
\* primary_key column the partition key and every other one a clustering key.
exec_module(lines) ==
    LET assigned == {i \in DOMAIN lines :
                        /\ lines[i].kind = "field"
                        /\ \A j \in DOMAIN lines :
                            (j > i /\ lines[j].kind = "field")
                                => lines[j].name # lines[i].name}
        fields == SelectIndices(lines, assigned, 1)
        keys == SelectIndices(fields, {i \in DOMAIN fields : fields[i].primary_key}, 1)
        class == (CHOOSE i \in DOMAIN lines : lines[i].kind = "class")
    IN  [err |-> IF keys = <<>> THEN ModelDefinitionException ELSE NoErr,
         symbols |-> {"columns", "Model", lines[class].name},
         class_name |-> lines[class].name,
         model |-> [table_name |-> None,
                    case_sensitive |-> FALSE,
                    columns |-> [i \in DOMAIN fields |-> fields[i].name],
                    primary_keys |-> [i \in DOMAIN keys |-> keys[i].name],
                    partition_keys |-> [i \in DOMAIN keys \cap {1} |-> keys[i].name],
                    clustering_keys |->
                        [i \in 1..(Len(keys) - 1) |->
                            <<keys[i + 1].name, keys[i + 1].clustering_order>>]]]

\* the suffixes importlib has a source loader for; for a location with another
\* ending spec_from_file_location returns None
LoaderSuffixes == {".py"}

Pycache(anchor) ==
    IF anchor = Home THEN "/home/user/__pycache__" ELSE "/cwd/__pycache__"

\* the byte-code file of a source file: __pycache__/<stem>.<interpreter tag>.pyc
\* in the directory of the source
cache_from_source(path) == [path EXCEPT !.anchor = Pycache(path.anchor), !.ext = ".pyc"]

ByteCode(lines) == <<[kind |-> "code", of |-> lines]>>

\* len(str(path)) of a path as the caller wrote it
PathLen(path) == Len(path.anchor) + Len("/") + Len(path.stem) + Len(path.ext)

\* the characters of a line of _write_model_lines after the first
LineSize(line) ==
    CASE line.kind = "comment" /\ line.text = "Regular Table Columns:" ->
            1 + Len("    # ") + Len(line.text) + 1
      [] line.kind = "comment" -> Len("# ") + Len(line.text) + 1
      [] line.kind = "import" /\ line.name = "columns" ->
            Len("from cassandra.cqlengine import columns") + 1
      [] line.kind = "import" ->
            Len("from cassandra.cqlengine.models import Model") + 3
      [] line.kind = "class" -> Len("class ") + Len(line.name) + Len("(Model):") + 1
      [] line.kind = "field" /\ ~line.primary_key ->
            Len("    ") + Len(line.name) + Len(" = columns.") + Len(line.type)
            + Len("()") + 1
      [] line.kind = "field" /\ line.clustering_order = None ->
            Len("    ") + Len(line.name) + Len(" = columns.") + Len(line.type)
            + Len("(primary_key=True)") + 1
      [] line.kind = "field" ->
            Len("    ") + Len(line.name) + Len(" = columns.") + Len(line.type)
            + Len("(primary_key=True, clustering_order='")
            + Len(line.clustering_order) + Len("')") + 1

RECURSIVE BodySize(_)
BodySize(lines) ==
    IF lines = <<>> THEN 0 ELSE LineSize(Head(lines)) + BodySize(Tail(lines))

\* st_size of a source file: the characters, all ASCII, of "# {path}\n" and of
\* the lines after it
SourceSize(lines) ==
    IF lines = <<>> THEN 0
    ELSE Len("# ") + PathLen(Head(lines).text) + 1 + BodySize(Tail(lines))

\* spec_from_file_location gives None for a location no loader takes, and
\* module_from_spec(None) raises AttributeError.  exec_module takes the
\* byte-code file for the source when the size and the modification time, in
\* whole seconds, that the byte-code file records are those of the source;
\* otherwise it compiles the source and writes the byte-code file anew.  Then it
\* runs the code.  A source written again since the byte-code was made has the
\* recorded modification time when both writes fell into one second:
\* same_second, which is the clock's to decide.
retrieve_data_model(files, uid, path, model_name, same_second) ==
    LET input_path == expanduser(path)
        source == resolve(input_path)
        cache == cache_from_source(source)
    IN  IF input_path.ext \notin LoaderSuffixes
        THEN Forged(AttributeError, NoPath, NoModel, files, uid)
        ELSE IF ~is_file(files, input_path)
        THEN Forged(FileNotFoundError, NoPath, NoModel, files, uid)
        ELSE LET valid == /\ cache \in DOMAIN files
                          /\ SourceSize(files[cache][1].of) = SourceSize(files[source])
                          /\ files[cache][1].of = files[source] \/ same_second
                 code == IF valid THEN files[cache][1].of ELSE files[source]
                 module == exec_module(code)
                 cached == IF valid THEN files
                           ELSE WriteFile(files, cache, ByteCode(files[source]))
             IN  IF module.err # NoErr
                 THEN Forged(module.err, NoPath, NoModel, cached, uid)
                 ELSE IF model_name \notin module.symbols
                 THEN Forged(AttributeError, NoPath, NoModel, cached, uid)
                 ELSE IF model_name # module.class_name
                 THEN Forged(NoErr, NoPath, NoModel, cached, uid)
                 ELSE Forged(NoErr, NoPath,
                             [module.model EXCEPT !.table_name = model_name,
                                                  !.case_sensitive = TRUE],
                             cached, uid)

(***************************************************************************)
(* Calls of model.py                                                       *)
(***************************************************************************)
ForgeCall(op, meta_model, path, overwrite, backup, model_name, r) ==
    [op |-> op, meta_model |-> meta_model, path |-> path, overwrite |-> overwrite,
     backup |-> backup, model_name |-> model_name, err |-> r.err, ret |-> r.ret,
     model |-> r.model]

NoMetaModel == MetaModel(None, <<>>, <<>>, <<>>)

CreateDataModel(meta_model, path, overwrite, backup) ==
    LET r == create_data_model(fs, nextUid, meta_model, path, overwrite, backup)
    IN  /\ r.nextUid <= MaxUuid
        /\ fs' = r.fs
        /\ nextUid' = r.nextUid
        /\ last' = ForgeCall("create_data_model", meta_model, path, overwrite, backup,
                             None, r)
        /\ UNCHANGED <<store, binding, running>>

RetrieveDataModel(path, model_name, same_second) ==
    LET r == retrieve_data_model(fs, nextUid, path, model_name, same_second)
    IN  /\ fs' = r.fs
        /\ nextUid' = r.nextUid
        /\ last' = ForgeCall("retrieve_data_model", NoMetaModel, path, FALSE, FALSE,
                             model_name, r)
        /\ UNCHANGED <<store, binding, running>>

\* the descriptors of the tests: ccfts_mm and ccfts_mm2, and a second table
ForgeModels ==
    {MetaModel("CrawfordCommonFruitingTrees", <<<<"Latin", "Text">>>>,
               <<<<"English", <<"Text", "ASC">>>>, <<"German", <<"Text", "ASC">>>>>>,
               <<<<"USDA_Hardiness", "Integer">>>>),
     MetaModel("CrawfordCommonFruitingTrees", <<<<"Latin", "Text">>>>,
               <<<<"English", <<"Text", "ASC">>>>, <<"German", <<"Text", "ASC">>>>>>,
               <<<<"USDA_Hardiness", "Integer">>, <<"shade_tolerance", "Float">>>>),
     MetaModel("Plant", <<<<"latin", "Text">>>>, <<>>,
               <<<<"english", "Text">>, <<"german", "Text">>>>)}

ForgePaths == {Path(".", "pytest_tmp_model", ".py"), Path("~", "pytest_home_model", ".txt")}

NoStore == [ks \in KsNames |-> NoKeyspace]

InitForge ==
    /\ store = NoStore
    /\ binding = NoBinding
    /\ last = NoCall
    /\ fs = <<>>
    /\ nextUid = 0
    /\ running = <<>>

NextForge ==
    \/ \E mm \in ForgeModels, path \in ForgePaths, overwrite \in BOOLEAN,
          backup \in BOOLEAN :
            CreateDataModel(mm, path, overwrite, backup)
    \/ \E path \in ForgePaths, mm \in ForgeModels, same_second \in BOOLEAN :
            RetrieveDataModel(path, mm.name, same_second)

SpecForge == InitForge /\ [][NextForge]_vars

(***************************************************************************)
(* One location, written and loaded again and again.  Two of the           *)
(* descriptors differ in the name of one column and make source files of   *)
(* one size.                                                               *)
(***************************************************************************)
ReloadModels ==
    {MetaModel("Plant", <<<<"latin", "Text">>>>, <<>>,
               <<<<"english", "Text">>, <<"german", "Text">>>>),
     MetaModel("Plant", <<<<"latin", "Text">>>>, <<>>,
               <<<<"english", "Text">>, <<"french", "Text">>>>),
     MetaModel("Plant", <<<<"latin", "Text">>>>, <<<<"english", <<"Text", "ASC">>>>>>,
               <<<<"german", "Text">>>>)}

ReloadPaths == {Path(".", "pytest_tmp_model", ".py")}

NextReload ==
    \/ \E mm \in ReloadModels, path \in ReloadPaths, overwrite \in BOOLEAN,
          backup \in BOOLEAN :
            CreateDataModel(mm, path, overwrite, backup)
    \/ \E path \in ReloadPaths, mm \in ReloadModels, same_second \in BOOLEAN :
            RetrieveDataModel(path, mm.name, same_second)

SpecReload == InitForge /\ [][NextReload]_vars

\* descriptors with one or two primary keys, up to two clustering keys of
\* either direction and up to two plain columns, all names distinct
MetaModels ==
    {MetaModel(name, pk, ck, cols) :
        name \in {"Plant", "T1"},
        pk \in {<<<<"a", "Text">>>>, <<<<"a", "Text">>, <<"b", "Integer">>>>,
                <<<<"b", "Integer">>, <<"a", "Text">>>>},
        ck \in {<<>>, <<<<"c", <<"Text", "ASC">>>>>>, <<<<"c", <<"Text", "DESC">>>>>>,
                <<<<"c", <<"Text", "ASC">>>>, <<"d", <<"Integer", "DESC">>>>>>,
                <<<<"d", <<"Integer", "DESC">>>>, <<"c", <<"Text", "ASC">>>>>>},
        cols \in {<<>>, <<<<"e", "Text">>>>, <<<<"e", "Text">>, <<"f", "Float">>>>,
                  <<<<"f", "Float">>, <<"e", "Text">>>>}}

RoundTripPaths == {Path(".", "pytest_retrieve_model", ".py"), Path("~", "my_model", ".py")}

\* a descriptor and a path are given; nothing is on disk yet
InitRoundTrip ==
    /\ store = NoStore
    /\ binding = NoBinding
    /\ fs = <<>>
    /\ nextUid = 0
    /\ running = <<>>
    /\ \E mm \in MetaModels, path \in RoundTripPaths :
            last = ForgeCall("given", mm, path, FALSE, TRUE, None,
                             Forged(NoErr, NoPath, NoModel, fs, nextUid))

\* create_data_model(descriptor, path), then
\* retrieve_data_model(the path returned, descriptor.name)
NextRoundTrip ==
    \/ /\ last.op = "given"
       /\ CreateDataModel(last.meta_model, last.path, last.overwrite, last.backup)
    \/ /\ last.op = "create_data_model"
       /\ last.err = NoErr
       /\ \E same_second \in BOOLEAN :
            RetrieveDataModel(last.ret, last.meta_model.name, same_second)

SpecRoundTrip == InitRoundTrip /\ [][NextRoundTrip]_vars

(***************************************************************************)
(* create_data_model step by step, as a reader of the file system sees it. *)
(* _handle_path looks at the target and copies it; open(output_path, "w+") *)
(* leaves the target empty; writelines and the close at the end of the     *)
(* with block bring the lines to the file, in one piece or in several.     *)
(* A call can be stopped at any step.                                      *)
(***************************************************************************)
Writers == {"w"}

Idle == [pc |-> "idle"]

\* what `before` holds when no file is at the target
NoFile == <<[kind |-> "no file"]>>

NoLines == <<>>

Prefix(lines, n) == SubSeq(lines, 1, n)

\* how many lines are on disk when piece k of MaxPieces has been written
Piece(lines, k) == (k * Len(lines)) \div MaxPieces

\* shutil.copy2 that takes the lines out of src as it writes them to dst
copy2_moving(files, src, dst, n) ==
    [q \in (DOMAIN files \cup {dst}) \ {src} |->
        IF q = dst THEN Prefix(files[src], n) ELSE files[q]]

\* shutil.copy2(src, dst) when n lines have reached dst
copy2(files, src, dst, n) == WriteFile(files, dst, Prefix(files[src], n))

\* create_data_model(meta_model, path, overwrite, backup) is entered:
\* lines_to_write = _write_model_lines(meta_model, path)
CallCreateDataModel(w, meta_model, path, overwrite, backup) ==
    /\ running[w].pc \in {"idle", "stopped"}
    /\ running' = [running EXCEPT ![w] =
            [pc |-> "handle_path", meta_model |-> meta_model, path |-> path,
             overwrite |-> overwrite, backup |-> backup,
             lines_to_write |-> _write_model_lines(meta_model, path),
             output_path |-> NoPath, backup_path |-> NoPath,
             before |-> IF is_file(fs, expanduser(path))
                        THEN fs[resolve(expanduser(path))] ELSE NoFile,
             done |-> 0]]
    /\ UNCHANGED <<store, binding, last, fs, nextUid>>

\* _handle_path up to copy2: the output path, the refusal of an existing file,
\* the name of the backup
HandlePath(w) ==
    LET r == running[w]
        output_path == IF r.path.anchor = "~" THEN expanduser(r.path)
                       ELSE resolve(r.path)
    IN  /\ r.pc = "handle_path"
        /\ IF is_file(fs, output_path) /\ ~r.overwrite
           THEN /\ running' = [running EXCEPT ![w] = Idle]
                /\ last' = ForgeCall("create_data_model", r.meta_model, r.path,
                                     r.overwrite, r.backup, None,
                                     Forged(FileExistsError, NoPath, NoModel, fs, nextUid))
                /\ UNCHANGED nextUid
           ELSE IF is_file(fs, output_path) /\ r.backup
           THEN /\ nextUid < MaxUuid
                /\ nextUid' = nextUid + 1
                /\ running' = [running EXCEPT ![w] =
                        [r EXCEPT !.pc = "copy2", !.output_path = output_path,
                                  !.backup_path =
                                        [output_path EXCEPT !.backup = nextUid + 1]]]
                /\ UNCHANGED last
           ELSE /\ running' = [running EXCEPT ![w] =
                        [r EXCEPT !.pc = "open", !.output_path = output_path]]
                /\ UNCHANGED <<last, nextUid>>
        /\ UNCHANGED <<store, binding, fs>>

\* copy2 creates the backup file
CopyOpen(w) ==
    LET r == running[w]
    IN  /\ r.pc = "copy2"
        /\ fs' = copy2(fs, r.output_path, r.backup_path, 0)
        /\ running' = [running EXCEPT ![w] =
                [r EXCEPT !.pc = IF fs[r.output_path] = NoLines THEN "open"
                                 ELSE "copying"]]
        /\ UNCHANGED <<store, binding, last, nextUid>>

\* copy2 writes on; with the last line in the backup _handle_path returns
CopyLines(w, k) ==
    LET r == running[w]
        n == Piece(fs[r.output_path], k)
    IN  /\ r.pc = "copying"
        /\ n > r.done
        /\ fs' = copy2(fs, r.output_path, r.backup_path, n)
        /\ running' = [running EXCEPT ![w] =
                [r EXCEPT !.pc = IF n = Len(fs[r.output_path]) THEN "open"
                                 ELSE "copying",
                          !.done = IF n = Len(fs[r.output_path]) THEN 0 ELSE n]]
        /\ UNCHANGED <<store, binding, last, nextUid>>

\* open(output_path, "w+", encoding="utf8")
OpenTarget(w) ==
    LET r == running[w]
    IN  /\ r.pc = "open"
        /\ fs' = WriteFile(fs, r.output_path, NoLines)
        /\ running' = [running EXCEPT ![w] = [r EXCEPT !.pc = "writelines"]]
        /\ UNCHANGED <<store, binding, last, nextUid>>

\* file_handle.writelines(lines_to_write) and the close of the with block, as
\* far as the file shows them: n lines are in the file
WriteLines(w, k) ==
    LET r == running[w]
        n == Piece(r.lines_to_write, k)
    IN  /\ r.pc = "writelines"
        /\ n > r.done
        /\ fs' = WriteFile(fs, r.output_path, Prefix(r.lines_to_write, n))
        /\ running' = [running EXCEPT ![w] =
                [r EXCEPT !.pc = IF n = Len(r.lines_to_write) THEN "return"
                                 ELSE "writelines",
                          !.done = n]]
        /\ UNCHANGED <<store, binding, last, nextUid>>

\* return output_path
ReturnPath(w) ==
    LET r == running[w]
    IN  /\ r.pc = "return"
        /\ running' = [running EXCEPT ![w] = Idle]
        /\ last' = ForgeCall("create_data_model", r.meta_model, r.path, r.overwrite,
                             r.backup, None,
                             Forged(NoErr, r.output_path, NoModel, fs, nextUid))
        /\ UNCHANGED <<store, binding, fs, nextUid>>

\* the process is killed, the machine goes down: the call gets no further
Stop(w) ==
    /\ running[w].pc \notin {"idle", "stopped"}
    /\ running' = [running EXCEPT ![w].pc = "stopped"]
    /\ UNCHANGED <<store, binding, last, fs, nextUid>>

WritePaths == {Path(".", "pytest_tmp_model", ".py")}

\* ccfts_mm and a descriptor of one key
WriteModels ==
    {MetaModel("CrawfordCommonFruitingTrees", <<<<"Latin", "Text">>>>,
               <<<<"English", <<"Text", "ASC">>>>, <<"German", <<"Text", "ASC">>>>>>,
               <<<<"USDA_Hardiness", "Integer">>>>),
     MetaModel("Plant", <<<<"latin", "Text">>>>, <<>>, <<>>)}

InitWrite ==
    /\ store = NoStore
    /\ binding = NoBinding
    /\ last = NoCall
    /\ fs = <<>>
    /\ nextUid = 0
    /\ running = [w \in Writers |-> Idle]

NextWrite ==
    \E w \in Writers :
        \/ \E mm \in WriteModels, path \in WritePaths, overwrite \in BOOLEAN,
              backup \in BOOLEAN :
                CallCreateDataModel(w, mm, path, overwrite, backup)
        \/ HandlePath(w)
        \/ CopyOpen(w)
        \/ \E k \in 1..MaxPieces : CopyLines(w, k)
        \/ OpenTarget(w)
        \/ \E k \in 1..MaxPieces : WriteLines(w, k)
        \/ ReturnPath(w)
        \/ Stop(w)

SpecWrite == InitWrite /\ [][NextWrite]_vars

(***************************************************************************)
(* casdriv.py with two callers on one model class.  A call is its          *)
(* statements one by one: the assignment to model.__keyspace__, the        *)
(* assignment to model.__connection__, then each cqlengine call.  The      *)
(* class attributes are the one `binding` both callers write and read;     *)
(* nothing in casdriv.py holds a lock.  running[c] keeps caller c's call:  *)
(* its arguments, the statement it has come to, and what it got.           *)
(***************************************************************************)
Callers == {"A", "B"}

Waiting ==
    [pc |-> "idle", op |-> "none", data |-> NoEntry, prior_syncing |-> FALSE,
     primary_keys |-> PyStr(None), values |-> PyStr(None), keyspace |-> None,
     con |-> None, err |-> NoErr, entry |-> NoEntry, result |-> {}, removed |-> 0]

\* a model of the caller's own, bound to the caller's keyspace and con
bound_model_own(b, r) == Bind(b, r.keyspace, r.con)

\* the model a statement of the call works on: the class the caller passed,
\* with the __keyspace__ and __connection__ it has at that moment
bound_model(b, r) == b

\* the call is over: what it raised and what it returned
Finished(r, o) ==
    [r EXCEPT !.pc = "done", !.err = o.err, !.entry = o.entry, !.result = o.result]

CallCasdriv(c, op, data, prior_syncing, primary_keys, values, keyspace, con) ==
    /\ running[c].pc \in {"idle", "done"}
    /\ running' = [running EXCEPT ![c] =
            [Waiting EXCEPT !.pc = "bind_keyspace", !.op = op, !.data = data,
                            !.prior_syncing = prior_syncing,
                            !.primary_keys = primary_keys, !.values = values,
                            !.keyspace = keyspace, !.con = con]]
    /\ UNCHANGED <<store, binding, last, fs, nextUid>>

\* if keyspace: model.__keyspace__ = keyspace
BindKeyspace(c) ==
    LET r == running[c]
    IN  /\ r.pc = "bind_keyspace"
        /\ binding' = Bind(binding, r.keyspace, None)
        /\ running' = [running EXCEPT ![c].pc = "bind_con"]
        /\ UNCHANGED <<store, last, fs, nextUid>>

\* if con: model.__connection__ = con; then the first statement after it
BindCon(c) ==
    LET r == running[c]
        unfit == r.op \in {"read_entry", "delete_entry"}
                    /\ r.primary_keys.kind \notin {"str", "tuple"}
    IN  /\ r.pc = "bind_con"
        /\ binding' = Bind(binding, None, r.con)
        /\ running' = [running EXCEPT ![c] =
                IF unfit
                THEN Finished(r, Outcome(ValueError(KeyShapeMsg), NoEntry, {}, store,
                                         binding))
                ELSE [r EXCEPT !.pc =
                        CASE r.op = "create_entry" ->
                                IF r.prior_syncing THEN "sync" ELSE "create"
                          [] r.op \in {"read_entry", "delete_entry"} -> "get"
                          [] r.op = "get_all_entries" -> "all"]]
        /\ UNCHANGED <<store, last, fs, nextUid>>

\* synchronize_model(model) of create_entry
SyncStep(c) ==
    LET r == running[c]
        o == synchronize_model(store, bound_model(binding, r))
    IN  /\ r.pc = "sync"
        /\ store' = o.store
        /\ running' = [running EXCEPT ![c] =
                IF o.err # NoErr THEN Finished(r, o) ELSE [r EXCEPT !.pc = "create"]]
        /\ UNCHANGED <<binding, last, fs, nextUid>>

\* return model.create(**data)
CreateStep(c) ==
    LET r == running[c]
        o == model_create(store, bound_model(binding, r), r.data)
    IN  /\ r.pc = "create"
        /\ store' = o.store
        /\ running' = [running EXCEPT ![c] = Finished(r, o)]
        /\ UNCHANGED <<binding, last, fs, nextUid>>

\* entry = model.get(**filter_dict), of read_entry and, through it, delete_entry
GetStep(c) ==
    LET r == running[c]
        filter_dict == IF r.primary_keys.kind = "str"
                       THEN [k \in {r.primary_keys.v[1]} |-> r.values.v[1]]
                       ELSE DictZip(r.primary_keys.v, r.values.v)
        o == model_get(store, bound_model(binding, r), filter_dict)
    IN  /\ r.pc = "get"
        /\ store' = o.store
        /\ running' = [running EXCEPT ![c] =
                IF r.op = "delete_entry" /\ o.err = NoErr
                THEN [r EXCEPT !.pc = "delete", !.entry = o.entry]
                ELSE Finished(r, o)]
        /\ UNCHANGED <<binding, last, fs, nextUid>>

\* entry.delete() of delete_entry; removed counts the rows the store lost by it
DeleteStep(c) ==
    LET r == running[c]
        b == bound_model(binding, r)
        o == entry_delete(store, b, r.entry)
    IN  /\ r.pc = "delete"
        /\ store' = o.store
        /\ running' = [running EXCEPT ![c] =
                [Finished(r, [o EXCEPT !.entry = r.entry]) EXCEPT !.removed =
                    IF o.err # NoErr THEN 0
                    ELSE Cardinality(TableRows(store, b.keyspace, ModelTable)
                                     \ TableRows(o.store, b.keyspace, ModelTable))]]
        /\ UNCHANGED <<binding, last, fs, nextUid>>

\* return list(model.objects().all())
AllStep(c) ==
    LET r == running[c]
        o == objects_all(store, bound_model(binding, r))
    IN  /\ r.pc = "all"
        /\ store' = o.store
        /\ running' = [running EXCEPT ![c] = Finished(r, o)]
        /\ UNCHANGED <<binding, last, fs, nextUid>>

RaceKeyspaces == {"k1", "k2"}

RaceConnections == {"c1"}

\* the model class unbound; both keyspaces hold its table, each with a row
InitRace ==
    /\ store = [ks \in KsNames |->
                    [exists |-> TRUE, replication |-> SimpleStrategy,
                     tables |-> [t \in TableNames |->
                        IF t # ModelTable THEN NoTable
                        ELSE [exists |-> TRUE,
                              rows |-> {[latin |-> "a", german |-> "a",
                                         english |-> IF ks = "k1" THEN "a" ELSE "b"]}]]]]
    /\ binding = NoBinding
    /\ last = NoCall
    /\ fs = <<>>
    /\ nextUid = 0
    /\ running = [c \in Callers |-> Waiting]

NextRace ==
    \E c \in Callers :
        \/ \E data \in BindData, ps \in BOOLEAN, ks \in RaceKeyspaces,
              con \in RaceConnections :
                CallCasdriv(c, "create_entry", data, ps, PyStr(None), PyStr(None),
                            ks, con)
        \/ \E op \in {"read_entry", "delete_entry"}, kv \in BindKeyArgs,
              ks \in RaceKeyspaces, con \in RaceConnections :
                CallCasdriv(c, op, NoEntry, FALSE, kv[1], kv[2], ks, con)
        \/ \E ks \in RaceKeyspaces, con \in RaceConnections :
                CallCasdriv(c, "get_all_entries", NoEntry, FALSE, PyStr(None),
                            PyStr(None), ks, con)
        \/ BindKeyspace(c)
        \/ BindCon(c)
        \/ SyncStep(c)
        \/ CreateStep(c)
        \/ GetStep(c)
        \/ DeleteStep(c)
        \/ AllStep(c)

SpecRace == InitRace /\ [][NextRace]_vars

(***************************************************************************)
(* Properties of cql.py                                                    *)
(***************************************************************************)
CqlOps ==
    {"create_keyspace", "list_column_values", "get_all_entries", "drop_row",
     "drop_all_rows"}

WhitelistOps == CqlOps \ {"create_keyspace"}

\* the identifiers of a call that metadata st does not hold, each as the error
\* that names it
AbsentIdents(st, call) ==
    LET noKs == call.keyspace \notin list_cluster_keyspaces(st)
        noTable == noKs \/ call.table \notin list_keyspace_tables(st, call.keyspace)
        noColumn == noTable
                    \/ call.column \notin list_table_columns(st, call.keyspace, call.table)
        noKey == noTable
                 \/ call.column \notin list_table_primary_keys(st, call.keyspace, call.table)
    IN  {e \in {KeyError("Unknown keyspace", call.keyspace)} : noKs}
        \cup {e \in {KeyError("Unknown table", call.table)} : noTable}
        \cup {e \in {KeyError("Unknown column", call.column)} :
                    call.op = "list_column_values" /\ noColumn}
        \cup {e \in {KeyError("Unknown primary key", call.column)} :
                    call.op = "drop_row" /\ noKey}

\* C1: a whitelist-checked call (list_column_values, get_all_entries, drop_row,
\* drop_all_rows) given a keyspace, table, column or primary key that metadata
\* does not hold raises the Unknown* KeyError naming such an identifier, sends
\* no statement and leaves every row of the store as it was.
C1_WhitelistSoundness ==
    [][(last'.op \in WhitelistOps /\ AbsentIdents(store, last') # {})
        => /\ last'.err \in AbsentIdents(store, last')
           /\ last'.stmts = <<>>
           /\ store' = store]_vars

C1_Witness ==
    /\ last.op = "drop_row"
    /\ last.err = KeyError("Unknown primary key", "german")
    /\ last.stmts = <<>>
    /\ TableRows(store, last.keyspace, last.table) # {}

\* C2: drop_row with a known keyspace, table and primary key and a value that no
\* row holds in that column raises "Unknown primary key value", sends no DELETE
\* and leaves every row of the store as it was.
C2_UnknownValue ==
    [][(/\ last'.op = "drop_row"
        /\ last'.keyspace \in list_cluster_keyspaces(store)
        /\ last'.table \in list_keyspace_tables(store, last'.keyspace)
        /\ last'.column \in list_table_primary_keys(store, last'.keyspace, last'.table)
        /\ \A r \in TableRows(store, last'.keyspace, last'.table) :
                r[last'.column] # last'.value)
        => /\ last'.err = KeyError("Unknown primary key value", last'.value)
           /\ \A i \in DOMAIN last'.stmts : last'.stmts[i].verb # "DELETE"
           /\ store' = store]_vars

C2_Witness ==
    /\ last.op = "drop_row"
    /\ last.err = KeyError("Unknown primary key value", last.value)
    /\ Len(last.stmts) = 1
    /\ TableRows(store, last.keyspace, last.table) # {}

\* the caller-supplied identifiers a statement holds
StmtIdents(q) ==
    {Ident("keyspace", q.keyspace)}
    \cup {Ident("table", t) : t \in {q.table} \ {"-"}}
    \cup {Ident("column", c) : c \in {x \in {q.column} : q.verb = "SELECT" /\ x # "*"}}
    \cup {Ident("primary_key", c) : c \in {x \in {q.column} : q.verb = "DELETE"}}

\* C3 as stated: every statement any cql.py call sends, create_keyspace
\* included, holds only identifiers that passed a whitelist check of that call.
C3_AllStatementsWhitelisted ==
    last.op \in CqlOps
        => \A i \in DOMAIN last.stmts :
                StmtIdents(last.stmts[i]) \subseteq last.stmts[i].checked

\* C3 amended: every statement sent by list_column_values, get_all_entries,
\* drop_row and drop_all_rows holds only identifiers that passed a whitelist
\* check earlier in the call; create_keyspace sends its statement with the
\* caller's keyspace name and no check at all.
C3_CheckedOpsWhitelisted ==
    /\ last.op \in WhitelistOps
            => \A i \in DOMAIN last.stmts :
                    StmtIdents(last.stmts[i]) \subseteq last.stmts[i].checked
    /\ last.op = "create_keyspace"
            => /\ Len(last.stmts) = 1
               /\ last.stmts[1].keyspace = last.keyspace
               /\ last.stmts[1].checked = {}

C3_Witness ==
    /\ last.op = "drop_row"
    /\ last.err = NoErr
    /\ Len(last.stmts) = 2
    /\ last.stmts[2].verb = "DELETE"

(***************************************************************************)
(* Properties of casdriv.py                                                *)
(***************************************************************************)
ModelRows(st, b) ==
    IF TableAccess(st, b) = NoErr THEN TableRows(st, b.keyspace, ModelTable) ELSE {}

\* the rows that hold, for every i, values[i] in column primary_keys[i]
Matching(rows, primary_keys, values) ==
    {r \in rows : \A i \in DOMAIN primary_keys.v :
                    primary_keys.v[i] \in DOMAIN r /\ r[primary_keys.v[i]] = values.v[i]}

\* C7: when the read_entry that delete_entry starts with fails, delete_entry
\* fails with that very error and no row of the store is deleted.
C7_DeleteFailsAsRead ==
    [][LET read == read_entry(store, binding, last'.primary_keys, last'.values,
                              last'.keyspace, last'.con)
       IN  (last'.op = "delete_entry" /\ read.err # NoErr)
                => last'.err = read.err /\ store' = store]_vars

C7_Witness ==
    /\ last.op = "delete_entry"
    /\ last.err = DoesNotExist
    /\ ModelRows(store, binding) # {}

\* C8: once delete_entry has succeeded for a key, read_entry for that key
\* fails with DoesNotExist, get_all_entries returns the entries it returned
\* before less the one deleted, and no other table has changed.
C8_DeleteThenRead ==
    [][(last'.op = "delete_entry" /\ last'.err = NoErr)
        => LET before == get_all_entries_of(store, binding', None, None).result
               after == get_all_entries_of(store', binding', None, None)
               gone == Matching(before, last'.primary_keys, last'.values)
           IN  /\ read_entry(store', binding', last'.primary_keys, last'.values,
                             None, None).err = DoesNotExist
               /\ after.err = NoErr
               /\ Cardinality(gone) = 1
               /\ after.result = before \ gone
               /\ \A ks \in KsNames, t \in TableNames :
                    <<ks, t>> # <<binding'.keyspace, ModelTable>>
                        => store'[ks].tables[t] = store[ks].tables[t]]_vars

C8_Witness ==
    /\ last.op = "delete_entry"
    /\ last.err = NoErr
    /\ last.primary_keys = PyTuple(<<"latin", "english">>)
    /\ \E r \in ModelRows(store, binding) : r.latin = last.values.v[1]

\* C9: after create_entry(model, data, prior_syncing=True) has succeeded,
\* read_entry with the primary key columns and their values from data, the
\* same keyspace and connection, returns an entry equal to data in every column.
C9_CreateThenRead ==
    (last.op = "create_entry" /\ last.err = NoErr /\ last.prior_syncing)
        => LET pk == TablePrimaryKey(ModelTable)
               read == read_entry(store, binding, PyTuple(pk),
                                  PyTuple([i \in DOMAIN pk |-> last.data[pk[i]]]),
                                  last.keyspace, last.con)
           IN  /\ read.err = NoErr
               /\ \A c \in DOMAIN last.data : read.entry[c] = last.data[c]

C9_Witness ==
    /\ last.op = "create_entry"
    /\ last.err = NoErr
    /\ last.prior_syncing
    /\ \E r \in ModelRows(store, binding) :
            r.latin = last.data.latin /\ r.english # last.data.english

\* C10: read_entry given primary_keys and values as tuples of one length returns
\* the row that matches every (key, value) pair, and only when the store
\* holds exactly that one match; with no row matching all pairs it raises
\* DoesNotExist.
C10_CompositeKeyRead ==
    (/\ last.op = "read_entry"
     /\ last.primary_keys.kind = "tuple"
     /\ Len(last.primary_keys.v) = Len(last.values.v)
     /\ TableAccess(store, binding) = NoErr)
        => LET found == Matching(ModelRows(store, binding), last.primary_keys,
                                 last.values)
           IN  /\ last.err = NoErr => found = {last.entry}
               /\ Cardinality(found) = 1 => last.err = NoErr
               /\ found = {} => last.err = DoesNotExist

C10_Witness ==
    /\ last.op = "read_entry"
    /\ last.primary_keys = PyTuple(<<"latin", "english">>)
    /\ last.err = NoErr
    /\ \E r \in ModelRows(store, binding) :
            r # last.entry /\ r.latin = last.entry.latin

(***************************************************************************)
(* Properties of model.py                                                  *)
(***************************************************************************)
\* C4: create_data_model with overwrite=False on a location that holds a file
\* raises FileExistsError and leaves every file as it was: nothing written, no
\* backup made.
C4_NoOverwrite ==
    [][(/\ last'.op = "create_data_model"
        /\ ~last'.overwrite
        /\ is_file(fs, expanduser(last'.path)))
        => last'.err = FileExistsError /\ fs' = fs]_vars

C4_Witness ==
    /\ last.op = "create_data_model"
    /\ last.err = FileExistsError
    /\ last.backup
    /\ fs[resolve(expanduser(last.path))] # _write_model_lines(last.meta_model, last.path)

\* C5: create_data_model with overwrite=True and backup=True on a location that
\* holds a file adds exactly one file, in the directory of the target, holding
\* what the target held; the target then holds the rendering of the new
\* descriptor and every other file is as it was.
C5_OverwriteWithBackup ==
    [][(/\ last'.op = "create_data_model"
        /\ last'.overwrite
        /\ last'.backup
        /\ is_file(fs, expanduser(last'.path)))
        => LET target == resolve(expanduser(last'.path))
               added == DOMAIN fs' \ DOMAIN fs
           IN  /\ last'.err = NoErr
               /\ Cardinality(added) = 1
               /\ DOMAIN fs \subseteq DOMAIN fs'
               /\ \A q \in added : q.anchor = target.anchor /\ fs'[q] = fs[target]
               /\ fs'[target] = _write_model_lines(last'.meta_model, last'.path)
               /\ \A q \in DOMAIN fs \ {target} : fs'[q] = fs[q]]_vars

C5_Witness ==
    /\ last.op = "create_data_model"
    /\ last.err = NoErr
    /\ last.overwrite
    /\ last.backup
    /\ \E q \in DOMAIN fs : q.backup = 2 /\ fs[q] # fs[last.ret]

Names(items) == [i \in DOMAIN items |-> items[i][1]]

\* C6: retrieve_data_model(create_data_model(descriptor, path), descriptor.name)
\* is a model whose table name is descriptor.name, whose primary keys are the
\* descriptor's primary keys followed by its clustering keys, whose clustering
\* keys and their directions are the descriptor's, in order, and whose columns
\* are the keys and the plain columns of the descriptor.
C6_RoundTrip ==
    [][(/\ last.op = "create_data_model"
        /\ last'.op = "retrieve_data_model"
        /\ last'.path = last.ret
        /\ last'.model_name = last.meta_model.name)
        => LET mm == last.meta_model
               model == last'.model
           IN  /\ last'.err = NoErr
               /\ model.table_name = mm.name
               /\ model.primary_keys = Names(mm.primary_keys) \o Names(mm.clustering_keys)
               /\ model.clustering_keys =
                    [i \in DOMAIN mm.clustering_keys |->
                        <<mm.clustering_keys[i][1], mm.clustering_keys[i][2][2]>>]
               /\ SeqToSet(model.columns) =
                    SeqToSet(Names(mm.primary_keys)) \cup SeqToSet(Names(mm.clustering_keys))
                    \cup SeqToSet(Names(mm.columns))]_vars

(***************************************************************************)
(* Keyspace and connection binding (casdriv.py)                            *)
(***************************************************************************)
BindingOps == {"create_entry", "read_entry", "delete_entry", "get_all_entries"}

\* what call works with, given what was bound on the model before it: its own
\* keyspace and con where it names them, the bound ones where it does not
Effective(b, call) ==
    [keyspace |-> IF call.keyspace # None THEN call.keyspace ELSE b.keyspace,
     connection |-> IF call.con # None THEN call.con ELSE b.connection]

\* C11: create_entry, read_entry, delete_entry and get_all_entries work on the
\* keyspace and connection given as parameters, and on the ones bound on the
\* model for a parameter left out; what a call worked with stays bound on the
\* model for the calls after it.  Only the table in that keyspace is read or
\* written, and an unregistered connection fails the call.
C11_Binding ==
    [][last'.op \in BindingOps
        => LET eff == Effective(binding, last')
               rows == IF eff.keyspace \in KsNames
                       THEN TableRows(store, eff.keyspace, ModelTable) ELSE {}
               rowsAfter == IF eff.keyspace \in KsNames
                            THEN TableRows(store', eff.keyspace, ModelTable) ELSE {}
           IN  /\ binding' = eff
               /\ \A ks \in KsNames \ {eff.keyspace} : store'[ks] = store[ks]
               /\ (eff.connection \notin Connections /\ last'.primary_keys.kind # "int")
                    => last'.err = CQLEngineException /\ store' = store
               /\ last'.err = NoErr
                    => /\ eff.keyspace \in KsNames
                       /\ last'.op = "get_all_entries" => last'.result = rows
                       /\ last'.op = "read_entry"
                            => last'.entry \in Matching(rows, last'.primary_keys,
                                                        last'.values)
                       /\ last'.op = "create_entry" => last'.data \in rowsAfter
                       /\ last'.op = "delete_entry"
                            => rowsAfter = rows \ Matching(rows, last'.primary_keys,
                                                           last'.values)]_vars

\* a call that names neither keyspace nor connection reads the keyspace an
\* earlier call left bound, and that keyspace holds other rows than the other
C11_Witness ==
    /\ last.op = "get_all_entries"
    /\ last.keyspace = None
    /\ last.con = None
    /\ last.err = NoErr
    /\ binding.keyspace = "k2"
    /\ last.result = TableRows(store, "k2", ModelTable)
    /\ last.result # TableRows(store, "k1", ModelTable)

(***************************************************************************)
(* Validation of primary_keys (casdriv.py)                                 *)
(***************************************************************************)
\* C12: read_entry given primary_keys that is neither a str nor a container
\* raises ValueError; no statement goes to the store and no row changes.
C12_InvalidKeyShape ==
    [][(last'.op = "read_entry" /\ last'.primary_keys.kind \notin {"str", "tuple"})
        => /\ last'.err = ValueError(KeyShapeMsg)
           /\ last'.sent = <<>>
           /\ store' = store]_vars

\* the ValueError came although the table was there to be read on a registered
\* connection
C12_Witness ==
    /\ last.op = "read_entry"
    /\ last.primary_keys = PyInt(1)
    /\ last.err.type = "ValueError"
    /\ TableAccess(store, binding) = NoErr
    /\ ModelRows(store, binding) # {}

\* C13: read_entry or delete_entry that fails with the ValueError for
\* primary_keys leaves the keyspace and the connection bound on the model as
\* they were before the call.
C13_NoPartialState ==
    [][(last'.op \in {"read_entry", "delete_entry"} /\ last'.err.type = "ValueError")
        => binding' = binding]_vars

(***************************************************************************)
(* What DELETE and TRUNCATE of cql.py change                               *)
(***************************************************************************)
\* C14: drop_row that succeeds removes the rows of the table that hold value in
\* column primary_key, at least one, and nothing else: the other rows of the
\* table, every other table and the keyspaces are as before.
C14_DropRowFrame ==
    [][(last'.op = "drop_row" /\ last'.err = NoErr)
        => LET rows == TableRows(store, last'.keyspace, last'.table)
               gone == {r \in rows : r[last'.column] = last'.value}
           IN  /\ gone # {}
               /\ store' = WithRows(store, last'.keyspace, last'.table, rows \ gone)]_vars

\* a drop_row that left a row in its table, with rows in another table too
C14_Witness ==
    /\ last.op = "drop_row"
    /\ last.err = NoErr
    /\ last.keyspace = "k1"
    /\ last.table = "plant"
    /\ TableRows(store, "k1", "plant") # {}
    /\ TableRows(store, "k1", "tree") # {}
    /\ TableRows(store, "k2", "plant") # {}

\* C15: drop_all_rows that succeeds leaves its table without rows, so that
\* get_all_entries on it returns nothing; the table is still in the metadata
\* and every other table keeps its rows.
C15_DropAllRows ==
    [][(last'.op = "drop_all_rows" /\ last'.err = NoErr)
        => LET after == get_all_entries(store', last'.keyspace, last'.table)
           IN  /\ after.err = NoErr
               /\ after.result = {}
               /\ last'.table \in list_keyspace_tables(store', last'.keyspace)
               /\ store' = WithRows(store, last'.keyspace, last'.table, {})]_vars

\* a drop_all_rows that left its table empty and the rows of two other tables
\* in place
C15_Witness ==
    /\ last.op = "drop_all_rows"
    /\ last.err = NoErr
    /\ last.keyspace = "k1"
    /\ last.table = "plant"
    /\ TableRows(store, "k1", "plant") = {}
    /\ TableRows(store, "k1", "tree") # {}
    /\ TableRows(store, "k2", "plant") # {}

(***************************************************************************)
(* What get_all_entries returns over a history of calls (casdriv.py)       *)
(***************************************************************************)
\* what get_all_entries(model, "k1", "c1") returns on store st; nothing before
\* the table is there
Listing(st) == get_all_entries_of(st, NoBinding, "k1", "c1").result

CreatedAgain(st, call) ==
    IF call.op = "create_keyspace"
    THEN create_keyspace(st, call.keyspace, call.value)
    ELSE create_simple_keyspace(st, call.keyspace,
                                IF call.value = SimpleStrategy THEN 1 ELSE 2, "c1")

\* C17: when create_keyspace or create_simple_keyspace has returned, the
\* keyspace is in the metadata; a keyspace that was there before keeps its
\* replication, its tables and its rows, every other keyspace is untouched,
\* and the same call once more succeeds and changes nothing.
C17_CreateKeyspaceIdempotent ==
    [][(last'.op \in {"create_keyspace", "create_simple_keyspace"}
        /\ last'.err = NoErr)
        => /\ last'.keyspace \in list_cluster_keyspaces(store')
           /\ last'.keyspace \in list_cluster_keyspaces(store) => store' = store
           /\ \A ks \in KsNames \ {last'.keyspace} : store'[ks] = store[ks]
           /\ CreatedAgain(store', last').err = NoErr
           /\ CreatedAgain(store', last').store = store']_vars

\* create_keyspace has returned for a keyspace that holds rows and has another
\* replication than the one asked for
C17_Witness ==
    /\ last.op = "create_keyspace"
    /\ last.err = NoErr
    /\ last.value # "simple"
    /\ store[last.keyspace].replication = SimpleStrategy
    /\ TableRows(store, last.keyspace, "plant") # {}

(***************************************************************************)
(* Synchronizing a model with its table (casdriv.py)                       *)
(***************************************************************************)
\* C18: when synchronize_model has succeeded, the table of the model is in the
\* bound keyspace, every row stored before is still there, the binding is as
\* it was, and synchronize_model once more succeeds, sends nothing and changes
\* nothing.
C18_SyncIdempotent ==
    [][(last'.op = "synchronize_model" /\ last'.err = NoErr)
        => LET again == synchronize_model(store', binding')
           IN  /\ ModelTable \in list_keyspace_tables(store', binding'.keyspace)
               /\ binding' = binding
               /\ \A ks \in KsNames, t \in TableNames :
                        TableRows(store', ks, t) = TableRows(store, ks, t)
               /\ \A ks \in KsNames, t \in TableNames \ {ModelTable} :
                        store'[ks].tables[t] = store[ks].tables[t]
               /\ again.err = NoErr
               /\ again.sent = <<>>
               /\ again.store = store'
               /\ again.binding = binding']_vars

\* synchronize_model has succeeded on a table that held rows: the second, or a
\* later, synchronization of the model
C18_Witness ==
    /\ last.op = "synchronize_model"
    /\ last.err = NoErr
    /\ last.sent = <<>>
    /\ ModelRows(store, binding) # {}

(***************************************************************************)
(* Loading and first creation of an artifact (model.py)                    *)
(***************************************************************************)
\* C19 as stated: retrieve_data_model on a location that holds no file raises
\* FileNotFoundError; on an artifact that loads without defining model_name it
\* raises AttributeError; and a call that raises either leaves every file as
\* it was and creates none.
C19_RetrieveFailures ==
    [][last'.op = "retrieve_data_model"
        => LET input_path == expanduser(last'.path)
           IN  /\ ~is_file(fs, input_path) => last'.err = FileNotFoundError
               /\ (/\ is_file(fs, input_path)
                   /\ input_path.ext \in LoaderSuffixes
                   /\ exec_module(fs[resolve(input_path)]).err = NoErr
                   /\ last'.model_name
                        \notin exec_module(fs[resolve(input_path)]).symbols)
                    => last'.err = AttributeError
               /\ last'.err \in {FileNotFoundError, AttributeError} => fs' = fs]_vars

\* C20: create_data_model with overwrite=False and backup=True on a location
\* that holds no file succeeds and returns the location made absolute (home
\* for a leading "~", the working directory otherwise); afterwards the file at
\* the returned location holds the lines rendered from the descriptor, and no
\* other file has been created, changed or removed.
C20_FirstCreation ==
    [][(/\ last'.op = "create_data_model"
        /\ ~last'.overwrite
        /\ last'.backup
        /\ ~is_file(fs, expanduser(last'.path)))
        => /\ last'.err = NoErr
           /\ last'.ret = resolve(expanduser(last'.path))
           /\ last'.ret.anchor \in {Home, Cwd}
           /\ fs' = WriteFile(fs, last'.ret,
                              _write_model_lines(last'.meta_model, last'.path))
           /\ DOMAIN fs' = DOMAIN fs \cup {last'.ret}
           /\ nextUid' = nextUid]_vars

\* a first create_data_model with default arguments has written its artifact
\* under the home directory while another artifact was in place
C20_Witness ==
    /\ last.op = "create_data_model"
    /\ last.err = NoErr
    /\ ~last.overwrite
    /\ last.backup
    /\ last.path.anchor = "~"
    /\ last.ret.anchor = Home
    /\ fs[last.ret] = _write_model_lines(last.meta_model, last.path)
    /\ \E q \in DOMAIN fs : q # last.ret /\ fs[q] # fs[last.ret]

(***************************************************************************)
(* The file system while create_data_model is under way (model.py)         *)
(***************************************************************************)
\* C21 as stated: while a create_data_model is under way, or stopped part-way,
\* the target is not there, or holds all of what it held before the call, or
\* holds all of the new lines.
C21_NoPartialArtifact ==
    \A w \in DOMAIN running :
        (running[w].pc # "idle" /\ running[w].output_path # NoPath)
            => \/ running[w].output_path \notin DOMAIN fs
               \/ fs[running[w].output_path] = running[w].before
               \/ fs[running[w].output_path] = running[w].lines_to_write

\* C27: in a create_data_model with overwrite=True and backup=True on a
\* location that held a file, all of what the file held is in the target or in
\* the backup at every step, also when the call is stopped part-way; and by
\* the time the target is opened for writing the backup holds all of it.
C27_BackupBeforeOverwrite ==
    \A w \in DOMAIN running :
        (/\ running[w].pc # "idle"
         /\ running[w].overwrite
         /\ running[w].backup
         /\ running[w].before # NoFile)
            => LET r == running[w]
                   target == resolve(expanduser(r.path))
                   kept == target \in DOMAIN fs /\ fs[target] = r.before
                   saved == /\ r.backup_path \in DOMAIN fs
                            /\ fs[r.backup_path] = r.before
               IN  /\ kept \/ saved
                   /\ r.pc \in {"open", "writelines", "return"} => saved

\* the target is being rewritten and holds neither its old nor its new lines,
\* and the backup holds the old ones
C27_Witness ==
    \E w \in DOMAIN running :
        /\ running[w].pc = "writelines"
        /\ running[w].overwrite
        /\ running[w].backup
        /\ running[w].before # NoFile
        /\ running[w].before # running[w].lines_to_write
        /\ fs[running[w].output_path] # running[w].before
        /\ fs[running[w].backup_path] = running[w].before

(***************************************************************************)
(* The kinds of the errors (cql.py, casdriv.py, model.py)                  *)
(***************************************************************************)
Failure(kind, err) == [kind |-> kind, err |-> err]

\* the check of drop_row that (keyspace, table, primary_key, value) fails first
\* on store st, by what the metadata and the rows of st hold
FailedCheck(st, keyspace, table, primary_key, value) ==
    IF keyspace \notin list_cluster_keyspaces(st) THEN "UnknownKeyspace"
    ELSE IF table \notin list_keyspace_tables(st, keyspace) THEN "UnknownTable"
    ELSE IF primary_key \notin list_table_primary_keys(st, keyspace, table)
    THEN "UnknownPrimaryKey"
    ELSE IF \A r \in TableRows(st, keyspace, table) : r[primary_key] # value
    THEN "UnknownValue"
    ELSE "none"

\* the failures the library can answer with on store st, each with the error
\* it raises
Failures(st) ==
    {Failure(FailedCheck(st, ks, t, c, v), drop_row(st, ks, t, c, v).err) :
        ks \in KsNames, t \in TableNames, c \in ColumnNames, v \in Vals}
    \cup {Failure(IF /\ FailedCheck(st, ks, t, "latin", "a")
                            \notin {"UnknownKeyspace", "UnknownTable"}
                      /\ c \notin list_table_columns(st, ks, t)
                   THEN "UnknownColumn" ELSE "none",
                   list_column_values(st, ks, t, c).err) :
            ks \in KsNames, t \in TableNames, c \in ColumnNames}
    \cup {Failure("InvalidKeyShape",
                  read_entry(st, NoBinding, PyInt(1), PyInt(2), None, None).err)}
    \cup {Failure("ArtifactExists",
                  _handle_path([q \in {resolve(path)} |-> NoLines], 0, path,
                               FALSE, TRUE).err) : path \in WritePaths}

\* C22 as stated: two failures of different kinds among UnknownKeyspace,
\* UnknownTable, UnknownColumn, UnknownPrimaryKey, UnknownValue,
\* InvalidKeyShape and ArtifactExists raise errors of different types, so
\* that the type alone tells which of them happened.
C22_ErrorsTypedByKind ==
    \A f1, f2 \in {f \in Failures(store) : f.kind # "none" /\ f.err # NoErr} :
        f1.kind # f2.kind => f1.err.type # f2.err.type

(***************************************************************************)
(* Order of the whitelist checks                                           *)
(***************************************************************************)
\* the checks of a call in the order keyspace, table, column or primary key,
\* each with whether metadata st fails it and the error that reports it
ChecksInOrder(st, call) ==
    LET noKs == call.keyspace \notin list_cluster_keyspaces(st)
        noTable == noKs \/ call.table \notin list_keyspace_tables(st, call.keyspace)
    IN  <<[fails |-> noKs, err |-> KeyError("Unknown keyspace", call.keyspace)],
          [fails |-> ~noKs /\ noTable, err |-> KeyError("Unknown table", call.table)],
          [fails |-> /\ call.op = "list_column_values"
                     /\ ~noTable
                     /\ call.column \notin
                            list_table_columns(st, call.keyspace, call.table),
           err |-> KeyError("Unknown column", call.column)],
          [fails |-> /\ call.op = "drop_row"
                     /\ ~noTable
                     /\ call.column \notin
                            list_table_primary_keys(st, call.keyspace, call.table),
           err |-> KeyError("Unknown primary key", call.column)]>>

\* how many of keyspace, table and column or primary key metadata st lacks
UnknownIdents(st, call) ==
    {i \in {"keyspace", "table", "column"} :
        \/ i = "keyspace" /\ call.keyspace \notin list_cluster_keyspaces(st)
        \/ i = "table" /\ ~TableKnown(st, call.keyspace, call.table)
        \/ i = "column" /\ call.op = "list_column_values"
                /\ call.column \notin TableColumns(call.table)
        \/ i = "column" /\ call.op = "drop_row"
                /\ call.column \notin SeqToSet(TablePrimaryKey(call.table))}

\* C25: the whitelist checks run in the order keyspace, table, column or primary
\* key, value.  The first check that fails ends the call with its own error and
\* with no statement sent, the SELECT of drop_row included; the value check of
\* drop_row fails only after the three before it passed, with the one SELECT
\* sent and no DELETE.
C25_ChecksInOrder ==
    [][last'.op \in WhitelistOps
        => LET checks == ChecksInOrder(store, last')
               failing == {i \in DOMAIN checks : checks[i].fails}
           IN  /\ \A i \in failing :
                    /\ \A j \in failing : i = j
                    /\ last'.err = checks[i].err
                    /\ last'.stmts = <<>>
                    /\ store' = store
               /\ (failing = {} /\ last'.op = "drop_row"
                        /\ last'.err = KeyError("Unknown primary key value", last'.value))
                    => /\ Len(last'.stmts) = 1
                       /\ last'.stmts[1].verb = "SELECT"
               /\ failing = {} => last'.err.type # "KeyError"
                                    \/ last'.err.msg = "Unknown primary key value"]_vars

\* drop_row was given an unknown table and a column that is no primary key, and
\* reported the table
C25_Witness ==
    /\ last.op = "drop_row"
    /\ last.keyspace \in list_cluster_keyspaces(store)
    /\ {"table", "column"} \subseteq UnknownIdents(store, last)
    /\ last.err = KeyError("Unknown table", last.table)
    /\ last.stmts = <<>>

(***************************************************************************)
(* read_entry with keys and values of different lengths                    *)
(***************************************************************************)
\* the first n elements of a tuple argument
Truncated(arg, n) == PyTuple(SubSeq(arg.v, 1, n))

\* C30: read_entry given primary_keys and values as tuples of different lengths
\* raises no ValueError; it ends as the call with both cut to the shorter
\* length ends, and an entry it returns holds each paired value under its key.
C30_SurplusIgnored ==
    (/\ last.op = "read_entry"
     /\ last.primary_keys.kind = "tuple"
     /\ last.values.kind = "tuple"
     /\ Len(last.primary_keys.v) # Len(last.values.v))
        => LET n == Min(Len(last.primary_keys.v), Len(last.values.v))
               paired == read_entry(store, binding, Truncated(last.primary_keys, n),
                                    Truncated(last.values, n), last.keyspace, last.con)
           IN  /\ last.err.type # "ValueError"
               /\ last.err = paired.err
               /\ last.entry = paired.entry
               /\ last.sent = paired.sent
               /\ last.err = NoErr
                    => \A i \in 1..n : last.entry[last.primary_keys.v[i]] = last.values.v[i]

\* two keys and one value: the entry with that latin name came back
C30_Witness ==
    /\ last.op = "read_entry"
    /\ last.primary_keys = PyTuple(<<"latin", "english">>)
    /\ Len(last.values.v) = 1
    /\ last.err = NoErr
    /\ last.entry.latin = last.values.v[1]
    /\ last.sent = <<"SELECT">>

(***************************************************************************)
(* create_entry and synchronize_model                                      *)
(***************************************************************************)
\* the keyspaces that hold the model's table in st
Synced(st) == {ks \in KsNames : TableKnown(st, ks, ModelTable)}

\* C26: create_entry synchronizes the model if and only if prior_syncing is
\* true, with the keyspace and connection of this call applied and before the
\* row is written: a missing table is created in the keyspace the call is bound
\* to and nowhere else, CREATE TABLE goes out before INSERT and the row lands in
\* the new table; with prior_syncing false no table is created.
C26_SyncAfterBinding ==
    [][last'.op = "create_entry"
        => LET b1 == Bind(binding, last'.keyspace, last'.con)
               created == Synced(store') \ Synced(store)
               missing == /\ b1.connection \in Connections
                          /\ b1.keyspace \in list_cluster_keyspaces(store)
                          /\ b1.keyspace \notin Synced(store)
           IN  /\ Synced(store) \subseteq Synced(store')
               /\ ~last'.prior_syncing
                    => /\ created = {}
                       /\ \A i \in DOMAIN last'.sent : last'.sent[i] # "CREATE TABLE"
               /\ last'.prior_syncing
                    => /\ created = IF missing THEN {b1.keyspace} ELSE {}
                       /\ missing => /\ last'.sent = <<"CREATE TABLE", "INSERT">>
                                      /\ last'.err = NoErr
                                      /\ last'.data \in
                                            TableRows(store', b1.keyspace, ModelTable)
                       /\ ~missing => \A i \in DOMAIN last'.sent :
                                            last'.sent[i] # "CREATE TABLE"]_vars

\* a call with keyspace k2 and no con, on a model whose connection an earlier
\* call had set, created the table in k2 and wrote its row there; k1 has none
C26_Witness ==
    /\ last.op = "create_entry"
    /\ last.prior_syncing
    /\ last.keyspace = "k2"
    /\ last.con = None
    /\ last.sent = <<"CREATE TABLE", "INSERT">>
    /\ Synced(store) = {"k2"}
    /\ TableRows(store, "k2", ModelTable) = {last.data}

(***************************************************************************)
(* Two callers on one model                                                *)
(***************************************************************************)
RowSteps == {"create", "get", "delete", "all"}

KeysOf(rows) == {RowKey(ModelTable, row) : row \in rows}

\* C23: a row operation of create_entry, read_entry, delete_entry or
\* get_all_entries runs against the keyspace the shared model is bound to when
\* the operation is sent, whichever caller assigned it: it reads, writes and
\* deletes rows of that keyspace and of no other, so that between a caller's
\* binding and its row operation another caller's keyspace can take its place.
C23_SharedBinding ==
    [][\A c \in Callers :
        LET r == running[c]
            after == running'[c]
            ks == binding.keyspace
        IN  (r.pc \in RowSteps /\ after.pc # r.pc /\ after.err = NoErr)
                => /\ ks \in KsNames
                   /\ \A other \in KsNames \ {ks} : store'[other] = store[other]
                   /\ r.pc = "all" => after.result = TableRows(store, ks, ModelTable)
                   /\ r.pc = "get" => after.entry \in TableRows(store, ks, ModelTable)
                   /\ r.pc = "create" => r.data \in TableRows(store', ks, ModelTable)
                   /\ r.pc = "delete" =>
                        RowKey(ModelTable, r.entry)
                            \notin KeysOf(TableRows(store', ks, ModelTable))]_vars

\* a caller passed k1 and got the rows of k2, the keyspace the other caller
\* passed
C23_Witness ==
    \E c \in Callers, d \in Callers :
        /\ c # d
        /\ running[c].pc = "done"
        /\ running[c].op = "get_all_entries"
        /\ running[c].err = NoErr
        /\ running[c].keyspace = "k1"
        /\ running[d].pc # "idle"
        /\ running[d].keyspace = "k2"
        /\ running[c].result = TableRows(store, "k2", ModelTable)
        /\ running[c].result # TableRows(store, "k1", ModelTable)

\* C24: when the row delete_entry has read is gone from the table by the time
\* its entry.delete() runs, the delete takes nothing from the store, the call
\* ends with no error and the row is absent afterwards.
C24_StaleDelete ==
    [][\A c \in Callers :
        LET r == running[c]
            after == running'[c]
        IN  (/\ r.pc = "delete"
             /\ after.pc = "done"
             /\ TableAccess(store, binding) = NoErr
             /\ r.entry \notin TableRows(store, binding.keyspace, ModelTable))
                => /\ store' = store
                   /\ after.err = NoErr
                   /\ after.removed = 0
                   /\ r.entry \notin TableRows(store', binding.keyspace, ModelTable)]_vars

\* both callers deleted the same row of the same keyspace with no error; one
\* delete removed it, the other removed nothing
C24_Witness ==
    \E c \in Callers, d \in Callers :
        /\ c # d
        /\ running[c].op = "delete_entry" /\ running[d].op = "delete_entry"
        /\ running[c].pc = "done" /\ running[d].pc = "done"
        /\ running[c].err = NoErr /\ running[d].err = NoErr
        /\ running[c].keyspace = running[d].keyspace
        /\ running[c].entry = running[d].entry
        /\ running[c].entry # NoEntry
        /\ running[c].removed = 0
        /\ running[d].removed = 1
        /\ running[c].entry \notin TableRows(store, running[c].keyspace, ModelTable)

(***************************************************************************)
(* Backups                                                                 *)
(***************************************************************************)
\* the backup artifacts among files: "<stem>_backup_<uid><suffixes>"
Backups(files) == {q \in DOMAIN files : q.backup # 0}

\* C29: no call overwrites or removes a backup.  A create_data_model call that
\* succeeds with overwrite and backup on an existing target adds exactly one
\* backup, under a name no file had, holding the content the target had just
\* before; every other call, failed or with backup=false, adds none.
C29_BackupsKept ==
    [][LET target == IF last'.path.anchor = "~" THEN expanduser(last'.path)
                     ELSE resolve(last'.path)
           overwriting == /\ last'.op = "create_data_model"
                          /\ last'.err = NoErr
                          /\ last'.overwrite
                          /\ last'.backup
                          /\ target \in DOMAIN fs
           added == Backups(fs') \ Backups(fs)
       IN  /\ \A q \in Backups(fs) : q \in DOMAIN fs' /\ fs'[q] = fs[q]
           /\ overwriting
                => /\ Cardinality(added) = 1
                   /\ \A q \in added :
                        /\ q \notin DOMAIN fs
                        /\ q.anchor = target.anchor /\ q.stem = target.stem
                        /\ fs'[q] = fs[target]
           /\ ~overwriting => added = {}]_vars

\* two overwrites with backup of one location left two backups of different
\* content beside the target
C29_Witness ==
    /\ last.op = "create_data_model"
    /\ last.err = NoErr
    /\ last.overwrite /\ last.backup
    /\ \E q1, q2 \in Backups(fs) :
        /\ q1 # q2
        /\ q1.stem = last.ret.stem /\ q2.stem = last.ret.stem
        /\ fs[q1] # fs[q2]
        /\ fs[q1] # fs[last.ret] /\ fs[q2] # fs[last.ret]

(***************************************************************************)
(* Loading a location again                                                *)
(***************************************************************************)
\* C28 as stated: a retrieve_data_model that returns a model returns the
\* descriptor of the artifact the location holds, which the most recent
\* successful create_data_model wrote, whatever was created and retrieved there
\* before.
C28_RetrieveLatest ==
    (/\ last.op = "retrieve_data_model"
     /\ last.err = NoErr
     /\ last.model # NoModel)
        => last.model =
                [exec_module(fs[resolve(expanduser(last.path))]).model
                    EXCEPT !.table_name = last.model_name, !.case_sensitive = TRUE]

=============================================================================
